---- MODULE Spec2Model ----
(***************************************************************************)
(* Verification model of the s2 Builder pipeline: SnapFunction, Builder,   *)
(* BuilderGraph, PolygonLayer, BooleanOperation and BufferOperation, and   *)
(* of ShapeNestingQuery, PolylineSimplifier, ClosestPointQuery and         *)
(* EncodedShapeIndex.                                                      *)
(*                                                                         *)
(* Points are modelled on a line: a Point is an integer coordinate and the *)
(* angle between two points is the absolute difference.  Sequences are     *)
(* 1-based, so site ids and edge indices are the source's index plus one.  *)
(***************************************************************************)
EXTENDS Integers, Sequences, FiniteSets, TLC

VARIABLES
    opts,           \* Builder.opts: [SnapFunction |-> [kind, snapRadius], SplitCrossingEdges]
    layers,         \* Builder.layers
    inputVertices,  \* Builder.inputVertices
    inputEdges,     \* Builder.inputEdges
    polygon,        \* the caller-owned *Polygon objects the layers write to
    sites,          \* Build: the sites of the latest call
    vMap,           \* Build: input vertex index -> site id of the latest call
    edges,          \* Build: the graph edges of the latest call
    calls,          \* every layer.Build invocation so far, in order
    err,            \* the value returned by the latest Build ("none" before)
    builds,         \* number of Build calls that have returned
    op,             \* the BooleanOperation: [OpType, Layers, Options]
    emitLog,        \* every shouldEmit call of the latest BooleanOperation.Build
    opErr,          \* the value returned by BooleanOperation.Build ("none" before)
    bufop,          \* the BufferOperation and its internal state
    lastPath,       \* the path the latest Add* call handed to outputPath
    bufCalls,       \* number of Add* calls on the BufferOperation
    lastCall,       \* the name of the latest Add* call
    variant,        \* which BooleanOperation.Build ran: "full", "unionOnly" ("none" before)
    shapeA,         \* the loops of the first ShapeIndex handed to BooleanOperation.Build
    shapeB,         \* the loops of the second ShapeIndex handed to BooleanOperation.Build
    flagLog,        \* per chain walked by processRegion: the values of the inside flag
    nest,           \* the ShapeNestingQuery: its shape and the relations last computed
    simp,           \* the PolylineSimplifier and the result of its latest call
    graph,          \* a BuilderGraph handed to PolygonLayer.Build and the walks of that Build
    xing,           \* the crossings of one edge: the crossing map and what processRegion makes of it
    cpq,            \* a ClosestPointQuery, its PointIndex and the result of its latest call
    esi             \* an EncodedShapeIndex and the goroutines inside GetCell

builderVars == <<opts, layers, inputVertices, inputEdges, polygon, sites, vMap,
                 edges, calls, err, builds>>

boolVars == <<op, emitLog, opErr, variant, shapeA, shapeB, flagLog>>

bufVars == <<bufop, lastPath, bufCalls, lastCall>>

queryVars == <<nest, simp>>

auxVars == <<graph, xing, cpq, esi>>

vars == <<builderVars, boolVars, bufVars, queryVars, auxVars>>

----------------------------------------------------------------------------
(* Bounds *)

MaxPoint == 3
MaxRadius == 2
GridStep == 2
MaxEdges == 3
LMaxEdges == 3
LMaxPoint == 1
MaxLayers == 2
MaxBuilds == 2
NumPolygons == 2
NumErrors == 2
MaxBoolCoord == 1
MaxCrossings == 2
MaxChainsA == 1
MaxChainsB == 1
MaxChainLenA == 1
MaxChainLenB == 1
MaxBufCoord == 1
MaxBufRadius == 1
NumErrorFractions == 3
MaxPathLen == 3
MaxBufOps == 1
UMaxCoord == 2
UMaxShapes == 1
UMaxShapeEdges == 1
GMaxCoord == 3
NMaxCoord == 5
PMaxVertices == 3
PMaxEdges == 4
XMaxShapes == 2
XMaxPerShape == 2
XMaxDist == 2
XMaxResidue == 1
CMaxCoord == 2
CMaxPoints == 2
CMaxCalls == 2
EMaxGoroutines == 2
EMaxCells == 2
EMaxCalls == 2
NMaxChains == 3
SMaxDir == 2
SMaxRanges == 1
SMaxSrc == 1

\* Input points: coordinates 0, 1, 3, 6, ... (unevenly spaced on purpose).
Points == {(i * (i + 1)) \div 2 : i \in 0..MaxPoint}

\* The points the layer-dispatch specification draws edges from.
LayerPoints == {(i * (i + 1)) \div 2 : i \in 0..LMaxPoint}

\* A vertex that only loops held by a polygon before a Build are made of.
OldVertex == 99

OldLoop == <<OldVertex, OldVertex + 1, OldVertex + 2>>

----------------------------------------------------------------------------
(* s1 / s2 primitives *)

Abs(x) == IF x < 0 THEN -x ELSE x

\* The angle between two points.
Distance(a, b) == Abs(a - b)

\* Squared chord length: a monotonic surrogate for the angle.
ChordAngleBetweenPoints(a, b) == (a - b) * (a - b)

\* A negative angle converts to the negative chord angle.
ChordAngleFromAngle(a) == IF a < 0 THEN -1 ELSE a * a

----------------------------------------------------------------------------
(* SnapFunction *)

IdentitySnapFunction(snapRadius) == [kind |-> "identity", snapRadius |-> snapRadius]

\* A SnapFunction implementation that snaps to the multiples of GridStep.
GridSnapFunction(snapRadius) == [kind |-> "grid", snapRadius |-> snapRadius]

SnapRadius(f) == f.snapRadius

MinVertexSeparation(f) == f.snapRadius

SnapPoint(f, p) ==
    IF f.kind = "identity" THEN p ELSE (p \div GridStep) * GridStep

\* The SnapFunction contract: SnapPoint moves a point by at most SnapRadius
\* and is idempotent.
SnapContract(f) ==
    /\ f.snapRadius >= 0
    /\ \A p \in Points :
          /\ Distance(p, SnapPoint(f, p)) <= SnapRadius(f)
          /\ SnapPoint(f, SnapPoint(f, p)) = SnapPoint(f, p)

SnapFunctions ==
    {f \in {IdentitySnapFunction(r) : r \in 0..MaxRadius}
             \cup {GridSnapFunction(r) : r \in 0..MaxRadius} : SnapContract(f)}

----------------------------------------------------------------------------
(* Builder: site assignment *)

sitesAreCloseStrict(a, b, radius) ==
    ChordAngleBetweenPoints(a, b) < ChordAngleFromAngle(radius)

sitesAreClose(a, b, radius) ==
    ChordAngleBetweenPoints(a, b) <= ChordAngleFromAngle(radius)

\* The same loop, but a later match overwrites an earlier one.
RECURSIVE FindSiteLast(_, _, _, _)
FindSiteLast(snapped, ss, radius, siteIdx) ==
    IF siteIdx > Len(ss) THEN 0
    ELSE LET later == FindSiteLast(snapped, ss, radius, siteIdx + 1)
         IN IF later # 0 THEN later
            ELSE IF sitesAreClose(snapped, ss[siteIdx], radius) THEN siteIdx
            ELSE 0

\* The inner loop of the snapping phase: the first site, from siteIdx on,
\* that the snapped point is close to; 0 when there is none.
RECURSIVE FindSite(_, _, _, _)
FindSite(snapped, ss, radius, siteIdx) ==
    IF siteIdx > Len(ss) THEN 0
    ELSE IF sitesAreClose(snapped, ss[siteIdx], radius) THEN siteIdx
    ELSE FindSite(snapped, ss, radius, siteIdx + 1)

\* The outer loop of the snapping phase, from input vertex i on.
RECURSIVE SnapVertices(_, _, _, _, _)
SnapVertices(f, verts, i, vm, ss) ==
    IF i > Len(verts) THEN [vMap |-> vm, sites |-> ss]
    ELSE LET snapped == SnapPoint(f, verts[i])
             found == FindSite(snapped, ss, SnapRadius(f), 1)
         IN IF found # 0
            THEN SnapVertices(f, verts, i + 1, Append(vm, found), ss)
            ELSE SnapVertices(f, verts, i + 1, Append(vm, Len(ss) + 1),
                              Append(ss, snapped))

----------------------------------------------------------------------------
(* Builder: graph construction *)

\* A graph-construction loop that keeps the edges whose endpoints share a site.
RECURSIVE BuildEdgesKeep(_, _, _, _)
BuildEdgesKeep(ie, vm, inputID, acc) ==
    IF inputID > Len(ie) THEN acc
    ELSE BuildEdgesKeep(ie, vm, inputID + 1,
             Append(acc, [Src |-> vm[ie[inputID].v0], Dst |-> vm[ie[inputID].v1],
                          InputIDs |-> <<inputID>>]))

\* The graph-construction loop, from input edge inputID on.
RECURSIVE BuildEdges(_, _, _, _)
BuildEdges(ie, vm, inputID, acc) ==
    IF inputID > Len(ie) THEN acc
    ELSE LET src == vm[ie[inputID].v0]
             dst == vm[ie[inputID].v1]
         IN IF src = dst
            THEN BuildEdges(ie, vm, inputID + 1, acc)
            ELSE BuildEdges(ie, vm, inputID + 1,
                     Append(acc, [Src |-> src, Dst |-> dst, InputIDs |-> <<inputID>>]))

\* The indices of the edges that start at vertex v, in increasing order.
outEdgesOf(es, v) ==
    LET Idx == [i \in 1..Len(es) |-> i]
    IN SelectSeq(Idx, LAMBDA i : es[i].Src = v)

\* An adjacency loop that files every edge under its destination.
RECURSIVE computeAdjacencyByDst(_, _, _)
computeAdjacencyByDst(es, i, out) ==
    IF i > Len(es) THEN out
    ELSE computeAdjacencyByDst(es, i + 1, [out EXCEPT ![es[i].Dst] = Append(@, i)])

\* The loop of computeAdjacency, from edge i on: edge i is appended to the
\* list of its source vertex.
RECURSIVE computeAdjacency(_, _, _)
computeAdjacency(es, i, out) ==
    IF i > Len(es) THEN out
    ELSE computeAdjacency(es, i + 1, [out EXCEPT ![es[i].Src] = Append(@, i)])

\* A graph constructor that applies SiblingPairsDiscard to the edge list.
NewBuilderGraphFiltered(o, vertices, es) ==
    LET keep(e) == o.SiblingPairs # "SiblingPairsDiscard"
                      \/ ~\E i \in 1..Len(es) : es[i].Src = e.Dst /\ es[i].Dst = e.Src
        es2 == SelectSeq(es, keep)
    IN [Options |-> o, Vertices |-> vertices, Edges |-> es2,
        outEdges |-> computeAdjacency(es2, 1, [v \in 1..Len(vertices) |-> <<>>])]

NewBuilderGraph(o, vertices, es) ==
    [Options |-> o, Vertices |-> vertices, Edges |-> es,
     outEdges |-> computeAdjacency(es, 1, [v \in 1..Len(vertices) |-> <<>>])]

GetOutEdges(g, v) ==
    IF v > Len(g.outEdges) THEN <<>> ELSE g.outEdges[v]

----------------------------------------------------------------------------
(* PolygonLayer *)

\* The nil error value returned by a Build that succeeds.
NilError == <<"nil", 0>>

PolygonLayerOptions ==
    [EdgeType |-> "EdgeTypeDirected", DegenerateEdges |-> "DegenerateEdgesDiscard",
     DuplicateEdges |-> "DuplicateEdgesKeep", SiblingPairs |-> "SiblingPairsDiscard"]

NewPolygonLayer(p) == [kind |-> "polygon", polygon |-> p, opts |-> PolygonLayerOptions]

\* A BuilderLayer implementation whose Build returns an error and writes nothing.
FailingLayerOptions ==
    [EdgeType |-> "EdgeTypeUndirected", DegenerateEdges |-> "DegenerateEdgesKeep",
     DuplicateEdges |-> "DuplicateEdgesKeep", SiblingPairs |-> "SiblingPairsKeep"]

NewFailingLayer(e) ==
    [kind |-> "failing", polygon |-> 0, opts |-> FailingLayerOptions, error |-> e]

GraphOptions(l) == l.opts

LoopFromPoints(vertices) == vertices

PolygonFromLoops(loops) == loops

\* A candidate scan that looks at the first candidate only.
FirstUnusedHead(cands, used, k) ==
    IF Len(cands) = 0 \/ cands[1] \in used THEN 0 ELSE cands[1]

\* The first edge index of cands that is not in used; 0 when there is none
\* (the source's nextIdx == -1).
RECURSIVE FirstUnused(_, _, _)
FirstUnused(cands, used, k) ==
    IF k > Len(cands) THEN 0
    ELSE IF cands[k] \notin used THEN cands[k]
    ELSE FirstUnused(cands, used, k + 1)

\* A walk that counts a dead end as the end of a loop.
RECURSIVE WalkLoopOpen(_, _, _, _, _)
WalkLoopOpen(g, used, currEdgeIdx, startVertex, vertices) ==
    LET used2 == used \cup {currEdgeIdx}
        edge == g.Edges[currEdgeIdx]
        vertices2 == Append(vertices, g.Vertices[edge.Src])
    IN IF edge.Dst = startVertex
       THEN [used |-> used2, vertices |-> vertices2, validLoop |-> TRUE,
             trace |-> <<currEdgeIdx>>]
       ELSE LET nextIdx == FirstUnused(GetOutEdges(g, edge.Dst), used2, 1)
            IN IF nextIdx = 0
               THEN [used |-> used2, vertices |-> vertices2, validLoop |-> TRUE,
                     trace |-> <<currEdgeIdx>>]
               ELSE [WalkLoopOpen(g, used2, nextIdx, startVertex, vertices2)
                        EXCEPT !.trace = <<currEdgeIdx>> \o @]

\* A walk that leaves the edge that closes the loop unmarked.
RECURSIVE WalkLoopUnmarkedClose(_, _, _, _, _)
WalkLoopUnmarkedClose(g, used, currEdgeIdx, startVertex, vertices) ==
    LET used2 == used \cup {currEdgeIdx}
        edge == g.Edges[currEdgeIdx]
        vertices2 == Append(vertices, g.Vertices[edge.Src])
    IN IF edge.Dst = startVertex
       THEN [used |-> used, vertices |-> vertices2, validLoop |-> TRUE,
             trace |-> <<currEdgeIdx>>]
       ELSE LET nextIdx == FirstUnused(GetOutEdges(g, edge.Dst), used2, 1)
            IN IF nextIdx = 0
               THEN [used |-> used2, vertices |-> vertices2, validLoop |-> FALSE,
                     trace |-> <<currEdgeIdx>>]
               ELSE [WalkLoopUnmarkedClose(g, used2, nextIdx, startVertex, vertices2)
                        EXCEPT !.trace = <<currEdgeIdx>> \o @]

\* The inner walk of PolygonLayer.Build, from edge currEdgeIdx on.  trace
\* lists the edges in the order in which used[currEdgeIdx] = true marks them.
RECURSIVE WalkLoop(_, _, _, _, _)
WalkLoop(g, used, currEdgeIdx, startVertex, vertices) ==
    LET used2 == used \cup {currEdgeIdx}
        edge == g.Edges[currEdgeIdx]
        vertices2 == Append(vertices, g.Vertices[edge.Src])
    IN IF edge.Dst = startVertex
       THEN [used |-> used2, vertices |-> vertices2, validLoop |-> TRUE,
             trace |-> <<currEdgeIdx>>]
       ELSE LET nextIdx == FirstUnused(GetOutEdges(g, edge.Dst), used2, 1)
            IN IF nextIdx = 0
               THEN [used |-> used2, vertices |-> vertices2, validLoop |-> FALSE,
                     trace |-> <<currEdgeIdx>>]
               ELSE [WalkLoop(g, used2, nextIdx, startVertex, vertices2)
                        EXCEPT !.trace = <<currEdgeIdx>> \o @]

\* The outer loop of PolygonLayer.Build, from edge i on.
RECURSIVE ExtractLoops(_, _, _, _)
ExtractLoops(g, i, used, loops) ==
    IF i > Len(g.Edges) THEN loops
    ELSE IF i \in used THEN ExtractLoops(g, i + 1, used, loops)
    ELSE LET w == WalkLoop(g, used, i, g.Edges[i].Src, <<>>)
         IN IF w.validLoop /\ Len(w.vertices) >= 3
            THEN ExtractLoops(g, i + 1, w.used, Append(loops, LoopFromPoints(w.vertices)))
            ELSE ExtractLoops(g, i + 1, w.used, loops)

\* The walks of PolygonLayer.Build in the order of the outer loop, from edge i
\* on: the edges each one marked, its vertices, whether it closed and
\* whether its loop was appended to loops.
RECURSIVE ExtractWalks(_, _, _, _)
ExtractWalks(g, i, used, walks) ==
    IF i > Len(g.Edges) THEN walks
    ELSE IF i \in used THEN ExtractWalks(g, i + 1, used, walks)
    ELSE LET w == WalkLoop(g, used, i, g.Edges[i].Src, <<>>)
         IN ExtractWalks(g, i + 1, w.used,
                Append(walks, [trace |-> w.trace, vertices |-> w.vertices,
                               validLoop |-> w.validLoop,
                               emitted |-> w.validLoop /\ Len(w.vertices) >= 3]))

PolygonLayerBuildMerge(l, g, polys) ==
    [err |-> NilError,
     polygon |-> [polys EXCEPT ![l.polygon] =
                     polys[l.polygon] \o PolygonFromLoops(ExtractLoops(g, 1, {}, <<>>))]]

\* A Build that reports a dead end to the caller and writes nothing then.
PolygonLayerBuildStrict(l, g, polys) ==
    LET loops == ExtractLoops(g, 1, {}, <<>>)
        walks == ExtractWalks(g, 1, {}, <<>>)
    IN IF \E a \in 1..Len(walks) : ~walks[a].validLoop
       THEN [err |-> <<"dead end", 0>>, polygon |-> polys]
       ELSE [err |-> NilError,
             polygon |-> [polys EXCEPT ![l.polygon] = PolygonFromLoops(loops)]]

\* PolygonLayer.Build: the polygon the layer points to is overwritten.
PolygonLayerBuild(l, g, polys) ==
    LET loops == ExtractLoops(g, 1, {}, <<>>)
    IN [err |-> NilError,
        polygon |-> [polys EXCEPT ![l.polygon] =
                        IF Len(loops) > 0 THEN PolygonFromLoops(loops)
                        ELSE PolygonFromLoops(<<>>)]]

\* layer.Build(g), dispatched on the layer's dynamic type.
LayerBuild(l, g, polys) ==
    IF l.kind = "polygon" THEN PolygonLayerBuild(l, g, polys)
    ELSE [err |-> l.error, polygon |-> polys]

----------------------------------------------------------------------------
(* Builder *)

NewBuilder(o) == [opts |-> o, layers |-> <<>>, inputVertices |-> <<>>, inputEdges |-> <<>>]

\* resolveIntersections builds a temporary index and changes no builder state.
resolveIntersections(verts, ie) == [inputVertices |-> verts, inputEdges |-> ie]

\* A dispatch loop that ignores the error a layer returns.
RECURSIVE DispatchLayersSwallow(_, _, _, _, _, _, _)
DispatchLayersSwallow(ls, k, ss, es, polys, log, n) ==
    IF k > Len(ls) THEN [err |-> NilError, polygon |-> polys, calls |-> log]
    ELSE LET g == NewBuilderGraph(GraphOptions(ls[k]), ss, es)
             r == LayerBuild(ls[k], g, polys)
             log2 == Append(log, [build |-> n, layer |-> k, Options |-> g.Options,
                                  Vertices |-> g.Vertices, Edges |-> g.Edges])
         IN DispatchLayersSwallow(ls, k + 1, ss, es, r.polygon, log2, n)

\* A dispatch loop that runs every layer and then returns the first error.
RECURSIVE DispatchLayersNoAbort(_, _, _, _, _, _, _)
DispatchLayersNoAbort(ls, k, ss, es, polys, log, n) ==
    IF k > Len(ls) THEN [err |-> NilError, polygon |-> polys, calls |-> log]
    ELSE LET g == NewBuilderGraph(GraphOptions(ls[k]), ss, es)
             r == LayerBuild(ls[k], g, polys)
             log2 == Append(log, [build |-> n, layer |-> k, Options |-> g.Options,
                                  Vertices |-> g.Vertices, Edges |-> g.Edges])
             rest == DispatchLayersNoAbort(ls, k + 1, ss, es, r.polygon, log2, n)
         IN IF r.err # NilError THEN [rest EXCEPT !.err = r.err] ELSE rest

\* The layer-dispatch loop of Build, from layer k on; n numbers the Build call.
RECURSIVE DispatchLayers(_, _, _, _, _, _, _)
DispatchLayers(ls, k, ss, es, polys, log, n) ==
    IF k > Len(ls) THEN [err |-> NilError, polygon |-> polys, calls |-> log]
    ELSE LET g == NewBuilderGraph(GraphOptions(ls[k]), ss, es)
             r == LayerBuild(ls[k], g, polys)
             log2 == Append(log, [build |-> n, layer |-> k, Options |-> g.Options,
                                  Vertices |-> g.Vertices, Edges |-> g.Edges])
         IN IF r.err # NilError
            THEN [err |-> r.err, polygon |-> r.polygon, calls |-> log2]
            ELSE DispatchLayers(ls, k + 1, ss, es, r.polygon, log2, n)

\* Builder.Build as a function of the builder's fields and the output polygons.
BuilderBuild(o, ls, verts, ie, polys, log, n) ==
    LET in == IF o.SplitCrossingEdges THEN resolveIntersections(verts, ie)
              ELSE [inputVertices |-> verts, inputEdges |-> ie]
        s == SnapVertices(o.SnapFunction, in.inputVertices, 1, <<>>, <<>>)
        es == BuildEdges(in.inputEdges, s.vMap, 1, <<>>)
        d == DispatchLayers(ls, 1, s.sites, es, polys, log, n)
    IN [sites |-> s.sites, vMap |-> s.vMap, edges |-> es,
        err |-> d.err, polygon |-> d.polygon, calls |-> d.calls]

StartLayer(L, maxL) ==
    /\ Len(layers) < maxL
    /\ \E layer \in L : layers' = Append(layers, layer)
    /\ UNCHANGED <<opts, inputVertices, inputEdges, polygon, sites, vMap, edges,
                   calls, err, builds>>

\* The fields AddEdge(v0, v1) leaves in a builder holding verts and ie.
AddEdgeTo(verts, ie, v0, v1) ==
    LET verts2 == verts \o <<v0, v1>>
        idx == Len(verts2)
    IN [inputVertices |-> verts2,
        inputEdges |-> Append(ie, [v0 |-> idx - 1, v1 |-> idx])]

AddEdge(P, maxE) ==
    /\ Len(inputEdges) < maxE
    /\ \E v0, v1 \in P :
          LET b == AddEdgeTo(inputVertices, inputEdges, v0, v1)
          IN /\ inputVertices' = b.inputVertices
             /\ inputEdges' = b.inputEdges
    /\ UNCHANGED <<opts, layers, polygon, sites, vMap, edges, calls, err, builds>>

\* Vertex j of a loop; j may be the number of vertices (the closing vertex).
LoopVertex(l, j) == l[(j % Len(l)) + 1]

\* The inner loop of AddPolygon over the vertices of one loop, from j on.
RECURSIVE AddLoopEdges(_, _, _)
AddLoopEdges(b, l, j) ==
    IF j >= Len(l) THEN b
    ELSE AddLoopEdges(AddEdgeTo(b.inputVertices, b.inputEdges,
                                LoopVertex(l, j), LoopVertex(l, j + 1)), l, j + 1)

\* The outer loop of AddPolygon over the loops of p, from i on.
RECURSIVE AddPolygonLoops(_, _, _)
AddPolygonLoops(b, p, i) ==
    IF i > Len(p) THEN b
    ELSE AddPolygonLoops(AddLoopEdges(b, p[i], 0), p, i + 1)

AddPolygon(P, maxE) ==
    /\ Len(inputEdges) + 3 <= maxE
    /\ \E a, b, c \in P :
          LET p == PolygonFromLoops(<<LoopFromPoints(<<a, b, c>>)>>)
              r == AddPolygonLoops([inputVertices |-> inputVertices,
                                    inputEdges |-> inputEdges], p, 1)
          IN /\ Len(r.inputEdges) <= maxE
             /\ inputVertices' = r.inputVertices
             /\ inputEdges' = r.inputEdges
    /\ UNCHANGED <<opts, layers, polygon, sites, vMap, edges, calls, err, builds>>

Build ==
    /\ builds < MaxBuilds
    /\ LET r == BuilderBuild(opts, layers, inputVertices, inputEdges, polygon,
                             calls, builds + 1)
       IN /\ sites' = r.sites
          /\ vMap' = r.vMap
          /\ edges' = r.edges
          /\ err' = r.err
          /\ polygon' = r.polygon
          /\ calls' = r.calls
    /\ builds' = builds + 1
    /\ UNCHANGED <<opts, layers, inputVertices, inputEdges>>

----------------------------------------------------------------------------
(* Specification of snapping: one builder, any snap function, used once *)

SnapLayers == {NewPolygonLayer(1)}

InitBuilder(F, S, P0) ==
    /\ \E f \in F, sc \in S :
          opts = [SnapFunction |-> f, SplitCrossingEdges |-> sc]
    /\ layers = <<>>
    /\ inputVertices = <<>>
    /\ inputEdges = <<>>
    /\ \E p0 \in P0 : polygon = [t \in 1..NumPolygons |-> p0]
    /\ sites = <<>>
    /\ vMap = <<>>
    /\ edges = <<>>
    /\ calls = <<>>
    /\ err = "none"
    /\ builds = 0

\* No BooleanOperation is in use.
NoBool ==
    /\ op = "none" /\ emitLog = <<>> /\ opErr = "none"
    /\ variant = "none" /\ shapeA = <<>> /\ shapeB = <<>> /\ flagLog = <<>>

\* No BufferOperation is in use.
NoBuffer == bufop = "none" /\ lastPath = <<>> /\ bufCalls = 0 /\ lastCall = "none"

\* Neither a ShapeNestingQuery nor a PolylineSimplifier is in use.
NoQuery ==
    /\ nest = [asked |-> FALSE, shape |-> <<>>, relations |-> <<>>]
    /\ simp = [src |-> 0, window |-> [Lo |-> 0, Hi |-> 0], rangesToAvoid |-> <<>>,
               lastCall |-> "none", ret |-> FALSE]

\* No BuilderGraph is built outside a Builder.
NoGraph ==
    graph = [stage |-> "none", Vertices |-> <<>>, Edges |-> <<>>,
             g |-> NewBuilderGraph(PolygonLayerOptions, <<>>, <<>>),
             walks |-> <<>>, err |-> <<"none", 0>>]

\* No edge is being split.
NoCrossing ==
    xing = [stage |-> "none", crossingMap |-> <<>>, order |-> <<>>,
            intersections |-> <<>>, segments |-> <<>>]

\* No ClosestPointQuery is in use.
NoClosestPointQuery ==
    cpq = [index |-> <<>>, opts |-> [MaxResults |-> 0, MaxDistance |-> 0, MaxError |-> 0],
           base |-> [resultVector |-> <<>>, resultHeap |-> <<>>, distanceLimit |-> 0],
           calls |-> 0, lastCall |-> "none", target |-> 0, limit |-> 0,
           results |-> <<>>]

\* No EncodedShapeIndex is in use.
NoEncodedShapeIndex ==
    esi = [raw |-> <<>>, cells |-> <<>>, readers |-> {}, writer |-> 0, g |-> <<>>,
           allocated |-> 0, stores |-> <<>>, returned |-> <<>>, unlocked |-> FALSE]

NoAux == NoGraph /\ NoCrossing /\ NoClosestPointQuery /\ NoEncodedShapeIndex

InitSnap ==
    /\ InitBuilder(SnapFunctions, {FALSE}, {PolygonFromLoops(<<>>)})
    /\ NoBool
    /\ NoBuffer
    /\ NoQuery
    /\ NoAux

\* The caller registers its layer first, adds its edges and builds once.
NextSnap ==
    \/ builds = 0 /\ inputEdges = <<>> /\ StartLayer(SnapLayers, 1)
           /\ UNCHANGED <<boolVars, bufVars, queryVars, auxVars>>
    \/ builds = 0 /\ layers # <<>> /\ AddEdge(Points, MaxEdges)
           /\ UNCHANGED <<boolVars, bufVars, queryVars, auxVars>>
    \/ builds = 0 /\ layers # <<>> /\ AddPolygon(Points, MaxEdges)
           /\ UNCHANGED <<boolVars, bufVars, queryVars, auxVars>>
    \/ builds = 0 /\ Build /\ UNCHANGED <<boolVars, bufVars, queryVars, auxVars>>

SpecSnap == InitSnap /\ [][NextSnap]_vars

----------------------------------------------------------------------------
(* Specification of layer dispatch: identity snapping, several layers,     *)
(* the builder used again after Build                                      *)

LayerSet ==
    {NewPolygonLayer(t) : t \in 1..NumPolygons}
        \cup {NewFailingLayer(<<"layer error", e>>) : e \in 1..NumErrors}

InitLayers ==
    /\ InitBuilder({IdentitySnapFunction(0)}, {TRUE},
                   {PolygonFromLoops(<<>>), PolygonFromLoops(<<LoopFromPoints(OldLoop)>>)})
    /\ NoBool
    /\ NoBuffer
    /\ NoQuery
    /\ NoAux

\* The caller registers its layers first; edges and polygons are added and
\* Build is called in any order, also after an earlier Build.
NextLayers ==
    \/ builds = 0 /\ inputEdges = <<>> /\ StartLayer(LayerSet, MaxLayers)
           /\ UNCHANGED <<boolVars, bufVars, queryVars, auxVars>>
    \/ AddEdge(LayerPoints, LMaxEdges) /\ UNCHANGED <<boolVars, bufVars, queryVars, auxVars>>
    \/ AddPolygon(Points, LMaxEdges) /\ UNCHANGED <<boolVars, bufVars, queryVars, auxVars>>
    \/ Build /\ UNCHANGED <<boolVars, bufVars, queryVars, auxVars>>

SpecLayers == InitLayers /\ [][NextLayers]_vars

----------------------------------------------------------------------------
(* Specification of a BuilderGraph built by a caller from any edge list    *)
(* and handed to a PolygonLayer                                            *)

\* Sequences over S of length at most n.
SeqsUpTo(S, n) == UNION {[1..k -> S] : k \in 0..n}

\* The vertices of the graph: vertex v is the point 10 + v.
GraphVertices == [v \in 1..PMaxVertices |-> 10 + v]

GraphEdgePairs == {<<a, b>> : a \in 1..PMaxVertices, b \in 1..PMaxVertices}

\* Edge lists in every storage order, duplicates and reversed pairs included.
GraphEdgeLists ==
    {[i \in 1..Len(ps) |-> [Src |-> ps[i][1], Dst |-> ps[i][2], InputIDs |-> <<i>>]] :
        ps \in SeqsUpTo(GraphEdgePairs, PMaxEdges)}

InitGraph ==
    /\ InitBuilder({IdentitySnapFunction(0)}, {FALSE},
                   {PolygonFromLoops(<<LoopFromPoints(OldLoop)>>)})
    /\ NoBool
    /\ NoBuffer
    /\ NoQuery
    /\ \E es \in GraphEdgeLists :
          graph = [stage |-> "input", Vertices |-> GraphVertices, Edges |-> es,
                   g |-> NewBuilderGraph(PolygonLayerOptions, <<>>, <<>>),
                   walks |-> <<>>, err |-> <<"none", 0>>]
    /\ NoCrossing
    /\ NoClosestPointQuery
    /\ NoEncodedShapeIndex

\* The caller constructs the graph: g := NewBuilderGraph(opts, vertices, edges).
GraphNew ==
    /\ graph.stage = "input"
    /\ graph' = [graph EXCEPT !.stage = "graph",
                   !.g = NewBuilderGraph(PolygonLayerOptions, graph.Vertices, graph.Edges)]
    /\ UNCHANGED <<builderVars, boolVars, bufVars, queryVars, xing, cpq, esi>>

\* The caller runs NewPolygonLayer(&polygon[1]).Build(g).
GraphBuild ==
    /\ graph.stage = "graph"
    /\ \E r \in {PolygonLayerBuild(NewPolygonLayer(1), graph.g, polygon)} :
          /\ polygon' = r.polygon
          /\ graph' = [graph EXCEPT !.stage = "built", !.err = r.err,
                         !.walks = ExtractWalks(graph.g, 1, {}, <<>>)]
    /\ UNCHANGED <<opts, layers, inputVertices, inputEdges, sites, vMap, edges,
                   calls, err, builds>>
    /\ UNCHANGED <<boolVars, bufVars, queryVars, xing, cpq, esi>>

NextGraph == GraphNew \/ GraphBuild

SpecGraph == InitGraph /\ [][NextGraph]_vars

----------------------------------------------------------------------------
(* BooleanOperation *)

BooleanOperationOpTypeUnion == 0
BooleanOperationOpTypeIntersection == 1
BooleanOperationOpTypeDifference == 2
BooleanOperationOpTypeSymmetricDifference == 3

OpTypes == {BooleanOperationOpTypeUnion, BooleanOperationOpTypeIntersection,
            BooleanOperationOpTypeDifference, BooleanOperationOpTypeSymmetricDifference}

\* NewBooleanOperation with opts == nil.
NewBooleanOperation(opType, layer) ==
    [OpType |-> opType, Layers |-> <<layer>>,
     Options |-> [SnapFunction |-> IdentitySnapFunction(0), SplitCrossingEdges |-> TRUE]]

\* A shouldEmit whose Difference case ignores which region is processed.
shouldEmitSymmetric(opType, inside, processingB) ==
    CASE opType = BooleanOperationOpTypeUnion -> ~inside
      [] opType = BooleanOperationOpTypeIntersection -> inside
      [] opType = BooleanOperationOpTypeDifference -> ~inside
      [] opType = BooleanOperationOpTypeSymmetricDifference -> ~inside
      [] OTHER -> FALSE

\* A shouldEmit whose SymmetricDifference case keeps the parts of the second
\* region that lie inside the first.
shouldEmitReversedB(opType, inside, processingB) ==
    CASE opType = BooleanOperationOpTypeUnion -> ~inside
      [] opType = BooleanOperationOpTypeIntersection -> inside
      [] opType = BooleanOperationOpTypeDifference ->
             IF processingB THEN inside ELSE ~inside
      [] opType = BooleanOperationOpTypeSymmetricDifference ->
             IF processingB THEN inside ELSE ~inside
      [] OTHER -> FALSE

shouldEmit(opType, inside, processingB) ==
    CASE opType = BooleanOperationOpTypeUnion -> ~inside
      [] opType = BooleanOperationOpTypeIntersection -> inside
      [] opType = BooleanOperationOpTypeDifference ->
             IF processingB THEN inside ELSE ~inside
      [] opType = BooleanOperationOpTypeSymmetricDifference -> ~inside
      [] OTHER -> FALSE

\* Point.ApproxEqual: the tolerance is far below the spacing of the model's points.
ApproxEqual(a, b) == a = b

\* Insert x behind every element that is not farther from start than x.
RECURSIVE InsertByDistance(_, _, _)
InsertByDistance(start, sorted, x) ==
    IF sorted = <<>> THEN <<x>>
    ELSE IF ChordAngleBetweenPoints(start, x) < ChordAngleBetweenPoints(start, Head(sorted))
         THEN <<x>> \o sorted
         ELSE <<Head(sorted)>> \o InsertByDistance(start, Tail(sorted), x)

\* A sortIntersections that leaves the points in the order they were collected.
sortIntersectionsNone(start, points) == points

\* sortIntersections: sort.Slice by distance from start; on slices this short
\* the sort is an insertion sort.
RECURSIVE sortIntersections(_, _)
sortIntersections(start, points) ==
    IF points = <<>> THEN <<>>
    ELSE InsertByDistance(start,
             sortIntersections(start, SubSeq(points, 1, Len(points) - 1)),
             points[Len(points)])

\* A sub-segment step without the test for a degenerate sub-segment.
EmitSegmentAlways(st, opType, currPt, nextPt, processingB) ==
    LET e == shouldEmit(opType, st.inside, processingB)
        st2 == [st EXCEPT !.log = Append(@, [opType |-> opType, inside |-> st.inside,
                                             processingB |-> processingB, emit |-> e])]
    IN IF e THEN [st2 EXCEPT !.b = AddEdgeTo(st.b.inputVertices, st.b.inputEdges,
                                             currPt, nextPt)]
       ELSE st2

\* One sub-segment of processRegion: emit currPt -> nextPt when it is not
\* degenerate and shouldEmit says so.  st holds the builder's input, the
\* shouldEmit log and the inside flag.
EmitSegment(st, opType, currPt, nextPt, processingB) ==
    IF ApproxEqual(currPt, nextPt) THEN st
    ELSE LET e == shouldEmit(opType, st.inside, processingB)
             st2 == [st EXCEPT !.log = Append(@, [opType |-> opType, inside |-> st.inside,
                                                  processingB |-> processingB, emit |-> e])]
         IN IF e THEN [st2 EXCEPT !.b = AddEdgeTo(st.b.inputVertices, st.b.inputEdges,
                                                  currPt, nextPt)]
            ELSE st2

\* An entry of the trace of the inside flag: the flag after the step, for
\* the start of a chain the result of the containment test, for the start of
\* an edge the number of its crossings, and for a crossing and the end of an
\* edge whether the sub-segment ending there was skipped as degenerate.
FlagEvent(kind, inside, contains, n, skipped) ==
    [kind |-> kind, inside |-> inside, contains |-> contains, n |-> n, skipped |-> skipped]

\* A crossing whose toggle is left out when the sub-segment was skipped.
CrossToUnlessSkipped(st, currPt, nextPt) ==
    LET inside == IF ApproxEqual(currPt, nextPt) THEN st.inside ELSE ~st.inside
    IN [st EXCEPT !.inside = inside,
                  !.flags = Append(@, FlagEvent("cross", inside, FALSE, 0,
                                                ApproxEqual(currPt, nextPt)))]

\* The end of one round of the loop over the intersections: inside = !inside
\* (currPt = nextPt is the caller's next argument).
CrossTo(st, currPt, nextPt) ==
    [st EXCEPT !.inside = ~st.inside,
               !.flags = Append(@, FlagEvent("cross", ~st.inside, FALSE, 0,
                                             ApproxEqual(currPt, nextPt)))]

\* The loop over the sorted intersections of one edge, from the k-th on,
\* followed by the final segment to V1.
RECURSIVE EmitSegments(_, _, _, _, _, _, _)
EmitSegments(st, opType, currPt, intersections, k, V1, processingB) ==
    IF k > Len(intersections)
    THEN LET st2 == EmitSegment(st, opType, currPt, V1, processingB)
         IN [st2 EXCEPT !.flags = Append(@, FlagEvent("final", st2.inside, FALSE, 0,
                                                      ApproxEqual(currPt, V1)))]
    ELSE LET st2 == EmitSegment(st, opType, currPt, intersections[k], processingB)
         IN EmitSegments(CrossTo(st2, currPt, intersections[k]), opType,
                         intersections[k], intersections, k + 1, V1, processingB)

\* The loop over the edges of one chain, from the i-th on.
RECURSIVE ProcessEdges(_, _, _, _, _)
ProcessEdges(st, opType, chain, i, processingB) ==
    IF i > Len(chain.edges) THEN st
    ELSE LET edge == chain.edges[i]
             intersections == sortIntersections(edge.V0, edge.crossings)
             st1 == [st EXCEPT !.flags = Append(@, FlagEvent("edge", st.inside, FALSE,
                                                             Len(intersections), FALSE))]
         IN ProcessEdges(EmitSegments(st1, opType, edge.V0, intersections, 1, edge.V1,
                                      processingB),
                         opType, chain, i + 1, processingB)

\* processRegion: the loop over the chains of the query index, from the c-th
\* on.  A chain carries what the queries against the reference index return
\* for it: inside for the containment test of its first vertex and, per
\* edge, the intersection points of its interior crossings.
RECURSIVE processRegion(_, _, _, _, _)
processRegion(st, opType, region, c, processingB) ==
    IF c > Len(region) THEN st
    ELSE IF Len(region[c].edges) = 0
         THEN processRegion(st, opType, region, c + 1, processingB)
         ELSE processRegion(
                  ProcessEdges([st EXCEPT !.inside = region[c].inside,
                                          !.flags = Append(@, FlagEvent("start", region[c].inside,
                                                                        region[c].inside, 0, FALSE))],
                               opType, region[c], 1, processingB),
                  opType, region, c + 1, processingB)

\* A Build that processes the second region like the first one.
BooleanOperationBuildSameSide(o, regionA, regionB, polys) ==
    LET b0 == [NewBuilder([SnapFunction |-> o.Options.SnapFunction,
                           SplitCrossingEdges |-> o.Options.SplitCrossingEdges])
                  EXCEPT !.layers = o.Layers]
        st0 == [b |-> [inputVertices |-> b0.inputVertices, inputEdges |-> b0.inputEdges],
                log |-> <<>>, inside |-> FALSE, flags |-> <<>>]
        stA == processRegion(st0, o.OpType, regionA, 1, FALSE)
        stB == processRegion(stA, o.OpType, regionB, 1, FALSE)
        r == BuilderBuild(b0.opts, b0.layers, stB.b.inputVertices, stB.b.inputEdges,
                          polys, <<>>, 1)
    IN [builder |-> [b0 EXCEPT !.inputVertices = stB.b.inputVertices,
                               !.inputEdges = stB.b.inputEdges],
        log |-> stB.log, flags |-> stB.flags, result |-> r]

\* BooleanOperation.Build as a function of the operation, the two regions
\* and the output polygons.
BooleanOperationBuild(o, regionA, regionB, polys) ==
    LET b0 == [NewBuilder([SnapFunction |-> o.Options.SnapFunction,
                           SplitCrossingEdges |-> o.Options.SplitCrossingEdges])
                  EXCEPT !.layers = o.Layers]
        st0 == [b |-> [inputVertices |-> b0.inputVertices, inputEdges |-> b0.inputEdges],
                log |-> <<>>, inside |-> FALSE, flags |-> <<>>]
        stA == processRegion(st0, o.OpType, regionA, 1, FALSE)
        stB == processRegion(stA, o.OpType, regionB, 1, TRUE)
        r == BuilderBuild(b0.opts, b0.layers, stB.b.inputVertices, stB.b.inputEdges,
                          polys, <<>>, 1)
    IN [builder |-> [b0 EXCEPT !.inputVertices = stB.b.inputVertices,
                               !.inputEdges = stB.b.inputEdges],
        log |-> stB.log, flags |-> stB.flags, result |-> r]

BoolPoints == 0..MaxBoolCoord

EdgeInputs == [V0 : BoolPoints, V1 : BoolPoints, crossings : SeqsUpTo(BoolPoints, MaxCrossings)]

Regions(maxChains, maxLen) ==
    SeqsUpTo([inside : BOOLEAN, edges : SeqsUpTo(EdgeInputs, maxLen)], maxChains)

BoolBuild ==
    /\ \E regionA \in Regions(MaxChainsA, MaxChainLenA),
          regionB \in Regions(MaxChainsB, MaxChainLenB) :
          \E r \in {BooleanOperationBuild(op, regionA, regionB, polygon)} :
             /\ opts' = r.builder.opts
             /\ layers' = r.builder.layers
             /\ inputVertices' = r.builder.inputVertices
             /\ inputEdges' = r.builder.inputEdges
             /\ sites' = r.result.sites
             /\ vMap' = r.result.vMap
             /\ edges' = r.result.edges
             /\ calls' = r.result.calls
             /\ err' = r.result.err
             /\ polygon' = r.result.polygon
             /\ emitLog' = r.log
             /\ flagLog' = r.flags
             /\ opErr' = r.result.err
    /\ builds' = 1
    /\ variant' = "full"
    /\ UNCHANGED <<op, shapeA, shapeB, bufVars, queryVars, auxVars>>

InitBool ==
    /\ \E t \in OpTypes : op = NewBooleanOperation(t, NewPolygonLayer(1))
    /\ emitLog = <<>>
    /\ opErr = "none"
    /\ InitBuilder({IdentitySnapFunction(0)}, {TRUE},
                   {PolygonFromLoops(<<LoopFromPoints(OldLoop)>>)})
    /\ variant = "none" /\ shapeA = <<>> /\ shapeB = <<>> /\ flagLog = <<>>
    /\ NoBuffer
    /\ NoQuery
    /\ NoAux

\* One BooleanOperation, built once.
NextBool == opErr = "none" /\ BoolBuild

SpecBool == InitBool /\ [][NextBool]_vars

----------------------------------------------------------------------------
(* Specification of the splitting of one edge at its crossings            *)

\* An intersection point as Intersection returns it for an edge from V0: t is
\* its place along the edge and r the rounding residue of the computation.
\* Two crossings at the same place of the edge can differ in r.
XPoints == [t : 1..XMaxDist, r : 0..XMaxResidue]

XV0 == [t |-> 0, r |-> 0]

XV1 == [t |-> XMaxDist + 1, r |-> 0]

\* ChordAngleBetweenPoints on these points: the residue is below the
\* resolution of the float64 result.
XChordAngle(a, b) == (a.t - b.t) * (a.t - b.t)

\* Point.ApproxEqual on these points: the residue is below its tolerance.
XApproxEqual(a, b) == a.t = b.t

\* The loops over crossingMap and edgeIDs: the shapes are visited in the
\* order the map iteration yields them, the k-th shape of order onwards.
RECURSIVE CollectIntersections(_, _, _)
CollectIntersections(crossingMap, order, k) ==
    IF k > Len(order) THEN <<>>
    ELSE crossingMap[order[k]] \o CollectIntersections(crossingMap, order, k + 1)

\* Insert x behind every element that is not farther from start than x.
RECURSIVE XInsert(_, _, _)
XInsert(start, sorted, x) ==
    IF sorted = <<>> THEN <<x>>
    ELSE IF XChordAngle(start, x) < XChordAngle(start, Head(sorted))
         THEN <<x>> \o sorted
         ELSE <<Head(sorted)>> \o XInsert(start, Tail(sorted), x)

\* sortIntersections on these points: sort.Slice by distance from start,
\* an insertion sort on slices of at most 12 elements.
RECURSIVE XSortIntersections(_, _)
XSortIntersections(start, points) ==
    IF points = <<>> THEN <<>>
    ELSE XInsert(start, XSortIntersections(start, SubSeq(points, 1, Len(points) - 1)),
                 points[Len(points)])

\* The loop over the sorted intersections and the final segment to V1: the
\* sub-segments that are not skipped, each with the value of inside it is
\* judged by.
RECURSIVE XSegments(_, _, _, _, _)
XSegments(currPt, intersections, k, V1, inside) ==
    IF k > Len(intersections)
    THEN IF XApproxEqual(currPt, V1) THEN <<>>
         ELSE <<[from |-> currPt, to |-> V1, inside |-> inside]>>
    ELSE (IF XApproxEqual(currPt, intersections[k]) THEN <<>>
          ELSE <<[from |-> currPt, to |-> intersections[k], inside |-> inside]>>)
            \o XSegments(intersections[k], intersections, k + 1, V1, ~inside)

\* The body of the loop over the edges of a chain for one edge whose crossing
\* map is crossingMap, when the map iteration visits the shapes in order.
SplitEdge(crossingMap, order) ==
    LET intersections == XSortIntersections(XV0, CollectIntersections(crossingMap, order, 1))
    IN [stage |-> "split", crossingMap |-> crossingMap, order |-> order,
        intersections |-> intersections,
        segments |-> XSegments(XV0, intersections, 1, XV1, FALSE)]

\* The orders in which a map with the keys 1..n can be iterated.
IterationOrders(n) ==
    {o \in [1..n -> 1..n] : \A a, b \in 1..n : a # b => o[a] # o[b]}

CrossingMaps == [1..XMaxShapes -> SeqsUpTo(XPoints, XMaxPerShape)]

InitCrossing ==
    /\ InitBuilder({IdentitySnapFunction(0)}, {TRUE}, {PolygonFromLoops(<<>>)})
    /\ NoBool
    /\ NoBuffer
    /\ NoQuery
    /\ NoGraph
    /\ NoClosestPointQuery
    /\ NoEncodedShapeIndex
    /\ \E m \in CrossingMaps :
          xing = [stage |-> "map", crossingMap |-> m, order |-> <<>>,
                  intersections |-> <<>>, segments |-> <<>>]

\* One edge is split: the range over crossingMap yields the shapes in an
\* order of the runtime's choosing.
CrossingSplit ==
    /\ xing.stage = "map"
    /\ \E order \in IterationOrders(Len(xing.crossingMap)) :
          xing' = SplitEdge(xing.crossingMap, order)
    /\ UNCHANGED <<builderVars, boolVars, bufVars, queryVars, graph, cpq, esi>>

NextCrossing == CrossingSplit

SpecCrossing == InitCrossing /\ [][NextCrossing]_vars

----------------------------------------------------------------------------
(* ClosestPointQuery over a PointIndex                                     *)

MaxInt32 == 2147483647

\* s1.InfChordAngle: above every chord angle of the model.
InfChordAngle == 100

StraightChordAngle == 4

NewClosestPointQueryBaseOptions ==
    [MaxResults |-> MaxInt32, MaxDistance |-> InfChordAngle, MaxError |-> 0]

\* ClosestPointQueryResult; pointID 0 is the source's -1 of an empty result.
EmptyResult == [distance |-> InfChordAngle, Point |-> 0, pointID |-> 0]

IsEmptyResult(r) == r.pointID = 0

ResultLess(r, other) ==
    IF r.distance < other.distance THEN TRUE
    ELSE IF other.distance < r.distance THEN FALSE
    ELSE r.pointID < other.pointID

\* NewClosestPointQueryBase: no field of the result state is set.
NewClosestPointQueryBase ==
    [resultVector |-> <<>>, resultHeap |-> <<>>, distanceLimit |-> 0]

\* The point target's updateDistanceToPoint: the distance to p when it is
\* below dist.
updateDistanceToPoint(target, p, dist) ==
    LET d == ChordAngleBetweenPoints(target, p)
    IN IF d < dist THEN [dist |-> d, ok |-> TRUE] ELSE [dist |-> dist, ok |-> FALSE]

\* heap.Push on the max-heap resultHeap, kept as a sequence with the largest
\* result first.
RECURSIVE HeapPush(_, _)
HeapPush(h, x) ==
    IF h = <<>> THEN <<x>>
    ELSE IF ResultLess(Head(h), x) THEN <<x>> \o h
    ELSE <<Head(h)>> \o HeapPush(Tail(h), x)

\* heap.Pop removes the largest result.
HeapPop(h) == Tail(h)

\* maybeAddResult without Region.
maybeAddResult(q, target, options, p, id) ==
    LET u == updateDistanceToPoint(target, p, q.distanceLimit)
        result == [distance |-> u.dist, Point |-> p, pointID |-> id]
    IN IF ~u.ok THEN q
       ELSE IF options.MaxResults = 1
       THEN [q EXCEPT !.resultVector = <<result>>,
                      !.distanceLimit = result.distance - options.MaxError]
       ELSE IF options.MaxResults = MaxInt32
       THEN [q EXCEPT !.resultVector = Append(@, result)]
       ELSE IF Len(q.resultHeap) >= options.MaxResults /\ ~ResultLess(result, q.resultHeap[1])
       THEN q
       ELSE LET h1 == IF Len(q.resultHeap) >= options.MaxResults
                      THEN HeapPop(q.resultHeap) ELSE q.resultHeap
                h2 == HeapPush(h1, result)
            IN [q EXCEPT !.resultHeap = h2,
                         !.distanceLimit = IF Len(h2) >= options.MaxResults
                                           THEN h2[1].distance - options.MaxError
                                           ELSE @]

\* findClosestPointsBruteForce, from the i-th point of the index on.
RECURSIVE findClosestPointsBruteForce(_, _, _, _, _)
findClosestPointsBruteForce(q, index, target, options, i) ==
    IF i > Len(index) THEN q
    ELSE findClosestPointsBruteForce(maybeAddResult(q, target, options, index[i], i),
                                     index, target, options, i + 1)

\* findClosestPointsInternal on an index small enough for brute force.
findClosestPointsInternal(q, index, target, options) ==
    LET q1 == [q EXCEPT !.distanceLimit = options.MaxDistance]
    IN IF q1.distanceLimit = 0 THEN q1
       ELSE findClosestPointsBruteForce(q1, index, target, options, 1)

\* sort.Slice(resultVector, Less): insert x into the sorted sequence.
RECURSIVE InsertResult(_, _)
InsertResult(sorted, x) ==
    IF sorted = <<>> THEN <<x>>
    ELSE IF ResultLess(x, Head(sorted)) THEN <<x>> \o sorted
    ELSE <<Head(sorted)>> \o InsertResult(Tail(sorted), x)

RECURSIVE SortResults(_)
SortResults(v) ==
    IF v = <<>> THEN <<>>
    ELSE InsertResult(SortResults(SubSeq(v, 1, Len(v) - 1)), v[Len(v)])

\* The heap popped empty, largest first.
Reverse(h) == [i \in 1..Len(h) |-> h[Len(h) + 1 - i]]

\* ClosestPointQueryBase.FindClosestPoints: the query afterwards and the
\* results returned.
BaseFindClosestPoints(q, index, target, options) ==
    LET q1 == findClosestPointsInternal(q, index, target, options)
        results == IF options.MaxResults = 1
                   THEN (IF Len(q1.resultVector) > 0 THEN <<q1.resultVector[1]>> ELSE <<>>)
                   ELSE IF options.MaxResults = MaxInt32
                   THEN SortResults(q1.resultVector)
                   ELSE Reverse(q1.resultHeap)
    IN [q |-> [q1 EXCEPT !.resultVector = <<>>, !.resultHeap = <<>>],
        results |-> results]

\* ClosestPointQueryBase.FindClosestPoint: the query afterwards and the
\* result returned.
BaseFindClosestPoint(q, index, target, options) ==
    LET o == [options EXCEPT !.MaxResults = 1]
        q1 == findClosestPointsInternal(q, index, target, o)
    IN [q |-> q1,
        results |-> IF Len(q1.resultVector) > 0 THEN <<q1.resultVector[1]>>
                    ELSE <<EmptyResult>>]

\* The three calls of ClosestPointQuery, on the base query q.
QueryCall(name, q, index, o, target, limit) ==
    IF name = "FindClosestPoints" THEN BaseFindClosestPoints(q, index, target, o)
    ELSE IF name = "FindClosestPoint"
    THEN BaseFindClosestPoint(q, index, target, [o EXCEPT !.MaxResults = 1])
    ELSE BaseFindClosestPoint(q, index, target,
             [o EXCEPT !.MaxResults = 1, !.MaxDistance = limit,
                       !.MaxError = StraightChordAngle])

QueryPoints == 0..CMaxCoord

\* A PointIndex keeps its points sorted by cell id.
PointIndexes ==
    {ix \in SeqsUpTo(QueryPoints, CMaxPoints) :
        \A i \in 1..(Len(ix) - 1) : ix[i] <= ix[i + 1]}

QueryLimits == {0, 1, 2, InfChordAngle}

QueryOptions ==
    {[NewClosestPointQueryBaseOptions EXCEPT !.MaxResults = n, !.MaxDistance = d] :
        n \in {1, 2, MaxInt32}, d \in QueryLimits}

\* NewClosestPointQuery(index, opts).
InitQuery ==
    /\ InitBuilder({IdentitySnapFunction(0)}, {TRUE}, {PolygonFromLoops(<<>>)})
    /\ NoBool
    /\ NoBuffer
    /\ NoQuery
    /\ NoGraph
    /\ NoCrossing
    /\ NoEncodedShapeIndex
    /\ \E ix \in PointIndexes, o \in QueryOptions :
          cpq = [index |-> ix, opts |-> o, base |-> NewClosestPointQueryBase,
                 calls |-> 0, lastCall |-> "none", target |-> 0, limit |-> 0,
                 results |-> <<>>]

\* The query object after the call name(target, limit).
AfterCall(name, target, limit) ==
    LET r == QueryCall(name, cpq.base, cpq.index, cpq.opts, target, limit)
    IN [cpq EXCEPT !.base = r.q, !.calls = @ + 1, !.lastCall = name,
                   !.target = target, !.limit = limit, !.results = r.results]

QueryFindClosestPoints ==
    /\ cpq.calls < CMaxCalls
    /\ \E t \in QueryPoints : cpq' = AfterCall("FindClosestPoints", t, 0)
    /\ UNCHANGED <<builderVars, boolVars, bufVars, queryVars, graph, xing, esi>>

QueryFindClosestPoint ==
    /\ cpq.calls < CMaxCalls
    /\ \E t \in QueryPoints : cpq' = AfterCall("FindClosestPoint", t, 0)
    /\ UNCHANGED <<builderVars, boolVars, bufVars, queryVars, graph, xing, esi>>

\* IsDistanceLess returns whether the result of its FindClosestPoint is not empty.
QueryIsDistanceLess ==
    /\ cpq.calls < CMaxCalls
    /\ \E t \in QueryPoints, limit \in QueryLimits :
          cpq' = AfterCall("IsDistanceLess", t, limit)
    /\ UNCHANGED <<builderVars, boolVars, bufVars, queryVars, graph, xing, esi>>

NextQuery == QueryFindClosestPoints \/ QueryFindClosestPoint \/ QueryIsDistanceLess

SpecQuery == InitQuery /\ [][NextQuery]_vars

----------------------------------------------------------------------------
(* EncodedShapeIndex.GetCell called from several goroutines               *)

\* A goroutine outside GetCell.  pc is its place in GetCell, i the index it
\* asked for, cell the local variable, ret the pointer the latest call
\* returned (0: none) and missed whether the first lookup of the current or
\* latest call found nothing.
IdleGoroutine == [pc |-> "idle", i |-> 0, cell |-> 0, ret |-> 0, missed |-> FALSE, calls |-> 0]

Goroutines == 1..EMaxGoroutines

CellIndexes == 1..EMaxCells

\* The state after Init has returned: the cache is empty (0: no entry), the
\* mutex is free.  raw[i] tells whether the encoded cell i decodes.
InitEncoded ==
    /\ InitBuilder({IdentitySnapFunction(0)}, {TRUE}, {PolygonFromLoops(<<>>)})
    /\ NoBool
    /\ NoBuffer
    /\ NoQuery
    /\ NoGraph
    /\ NoCrossing
    /\ NoClosestPointQuery
    /\ \E raw \in [CellIndexes -> {"valid", "corrupt"}] :
          esi = [raw |-> raw, cells |-> [i \in CellIndexes |-> 0],
                 readers |-> {}, writer |-> 0,
                 g |-> [k \in Goroutines |-> IdleGoroutine],
                 allocated |-> 0, stores |-> [i \in CellIndexes |-> 0],
                 returned |-> [i \in CellIndexes |-> {}], unlocked |-> FALSE]

EsiUnchanged ==
    UNCHANGED <<builderVars, boolVars, bufVars, queryVars, graph, xing, cpq>>

\* Goroutine k holds the mutex for reading or for writing.
HoldsLock(k) == k \in esi.readers \/ esi.writer = k

\* A goroutine calls GetCell(i).
GetCellCall ==
    /\ \E k \in Goroutines, i \in CellIndexes :
          /\ esi.g[k].pc \in {"idle", "done"}
          /\ esi.g[k].calls < EMaxCalls
          /\ esi' = [esi EXCEPT !.g[k] = [pc |-> "RLock", i |-> i, cell |-> 0, ret |-> 0,
                                           missed |-> FALSE, calls |-> @.calls + 1]]
    /\ EsiUnchanged

\* s.cellsMu.RLock(): granted while no goroutine holds the write lock.
GetCellRLock ==
    /\ \E k \in Goroutines :
          /\ esi.g[k].pc = "RLock"
          /\ esi.writer = 0
          /\ esi' = [esi EXCEPT !.readers = @ \cup {k}, !.g[k].pc = "lookup"]
    /\ EsiUnchanged

\* if cell, ok := s.cells[i]; ok, under the read lock.
GetCellLookup ==
    /\ \E k \in Goroutines :
          /\ esi.g[k].pc = "lookup"
          /\ esi' = [esi EXCEPT !.unlocked = @ \/ ~HoldsLock(k),
                                 !.g[k].cell = esi.cells[esi.g[k].i],
                                 !.g[k].missed = esi.cells[esi.g[k].i] = 0,
                                 !.g[k].pc = "RUnlock"]
    /\ EsiUnchanged

\* s.cellsMu.RUnlock(), followed by return cell when the lookup succeeded.
GetCellRUnlock ==
    /\ \E k \in Goroutines :
          /\ esi.g[k].pc = "RUnlock"
          /\ esi' = IF esi.g[k].missed
                     THEN [esi EXCEPT !.readers = @ \ {k}, !.g[k].pc = "Lock"]
                     ELSE [esi EXCEPT !.readers = @ \ {k}, !.g[k].pc = "done",
                                      !.g[k].ret = esi.g[k].cell,
                                      !.returned[esi.g[k].i] = @ \cup {esi.g[k].cell}]
    /\ EsiUnchanged

\* s.cellsMu.Lock(): granted while no goroutine holds the mutex.
GetCellLock ==
    /\ \E k \in Goroutines :
          /\ esi.g[k].pc = "Lock"
          /\ esi.writer = 0 /\ esi.readers = {}
          /\ esi' = [esi EXCEPT !.writer = k, !.g[k].pc = "check"]
    /\ EsiUnchanged

\* A second lookup that is left out.
DoubleCheckNone(k) ==
    esi' = [esi EXCEPT !.g[k].pc = "decode"]

\* The double check under the write lock: if cell, ok := s.cells[i]; ok.
DoubleCheck(k) ==
    esi' = [esi EXCEPT !.unlocked = @ \/ ~HoldsLock(k),
                       !.g[k].cell = esi.cells[esi.g[k].i],
                       !.g[k].pc = IF esi.cells[esi.g[k].i] = 0 THEN "decode" ELSE "Unlock"]

GetCellDoubleCheck ==
    /\ \E k \in Goroutines : esi.g[k].pc = "check" /\ DoubleCheck(k)
    /\ EsiUnchanged

\* cell := &ShapeIndexCell{} and cell.Decode: a new cell is allocated; Decode
\* fails on a corrupt encoding and GetCell panics.
GetCellDecode ==
    /\ \E k \in Goroutines :
          /\ esi.g[k].pc = "decode"
          /\ esi' = [esi EXCEPT !.allocated = @ + 1,
                                 !.g[k].cell = esi.allocated + 1,
                                 !.g[k].pc = IF esi.raw[esi.g[k].i] = "valid"
                                             THEN "store" ELSE "panic"]
    /\ EsiUnchanged

\* s.cells[i] = cell.
GetCellStore ==
    /\ \E k \in Goroutines :
          /\ esi.g[k].pc = "store"
          /\ esi' = [esi EXCEPT !.unlocked = @ \/ esi.writer # k,
                                 !.cells[esi.g[k].i] = esi.g[k].cell,
                                 !.stores[esi.g[k].i] = @ + 1,
                                 !.g[k].pc = "Unlock"]
    /\ EsiUnchanged

\* return cell, with the deferred s.cellsMu.Unlock().
GetCellUnlock ==
    /\ \E k \in Goroutines :
          /\ esi.g[k].pc = "Unlock"
          /\ esi' = [esi EXCEPT !.writer = 0, !.g[k].pc = "done",
                                 !.g[k].ret = esi.g[k].cell,
                                 !.returned[esi.g[k].i] = @ \cup {esi.g[k].cell}]
    /\ EsiUnchanged

\* The panic unwinds through the deferred s.cellsMu.Unlock(); the goroutine
\* makes no further call.
GetCellPanic ==
    /\ \E k \in Goroutines :
          /\ esi.g[k].pc = "panic"
          /\ esi' = [esi EXCEPT !.writer = 0, !.g[k].pc = "panicked"]
    /\ EsiUnchanged

NextEncoded ==
    \/ GetCellCall
    \/ GetCellRLock
    \/ GetCellLookup
    \/ GetCellRUnlock
    \/ GetCellLock
    \/ GetCellDoubleCheck
    \/ GetCellDecode
    \/ GetCellStore
    \/ GetCellUnlock
    \/ GetCellPanic

SpecEncoded == InitEncoded /\ [][NextEncoded]_vars

\* The emission table of the four operations: the rows are
\* <<operation, inside, processingB, emit>>.
EmitTable ==
    {<<BooleanOperationOpTypeUnion, FALSE, FALSE, TRUE>>,
     <<BooleanOperationOpTypeUnion, FALSE, TRUE, TRUE>>,
     <<BooleanOperationOpTypeUnion, TRUE, FALSE, FALSE>>,
     <<BooleanOperationOpTypeUnion, TRUE, TRUE, FALSE>>,
     <<BooleanOperationOpTypeIntersection, FALSE, FALSE, FALSE>>,
     <<BooleanOperationOpTypeIntersection, FALSE, TRUE, FALSE>>,
     <<BooleanOperationOpTypeIntersection, TRUE, FALSE, TRUE>>,
     <<BooleanOperationOpTypeIntersection, TRUE, TRUE, TRUE>>,
     <<BooleanOperationOpTypeDifference, FALSE, FALSE, TRUE>>,
     <<BooleanOperationOpTypeDifference, FALSE, TRUE, FALSE>>,
     <<BooleanOperationOpTypeDifference, TRUE, FALSE, FALSE>>,
     <<BooleanOperationOpTypeDifference, TRUE, TRUE, TRUE>>,
     <<BooleanOperationOpTypeSymmetricDifference, FALSE, FALSE, TRUE>>,
     <<BooleanOperationOpTypeSymmetricDifference, FALSE, TRUE, TRUE>>,
     <<BooleanOperationOpTypeSymmetricDifference, TRUE, FALSE, FALSE>>,
     <<BooleanOperationOpTypeSymmetricDifference, TRUE, TRUE, FALSE>>}

\* C1: every shouldEmit(inside, processingB) call returns what the emission
\* table says for the operation type, and the segment is added to the
\* builder exactly when it returns true.
C1_EmitTruthTable ==
    /\ \A i \in 1..Len(emitLog) :
          /\ emitLog[i].opType = op.OpType
          /\ <<emitLog[i].opType, emitLog[i].inside, emitLog[i].processingB,
               emitLog[i].emit>> \in EmitTable
    /\ opErr # "none" =>
          Len(inputEdges) = Cardinality({i \in 1..Len(emitLog) : emitLog[i].emit})

\* A Difference build that has decided segments of B both inside and outside A.
C1_Witness ==
    /\ op.OpType = BooleanOperationOpTypeDifference
    /\ \E i, j \in 1..Len(emitLog) :
          /\ emitLog[i].processingB /\ emitLog[i].inside /\ emitLog[i].emit
          /\ emitLog[j].processingB /\ ~emitLog[j].inside /\ ~emitLog[j].emit
    /\ \E i \in 1..Len(emitLog) : ~emitLog[i].processingB /\ emitLog[i].emit

\* The start of the chain that entry i of the trace belongs to.
ChainStart(i) ==
    CHOOSE s \in 1..i :
        /\ flagLog[s].kind = "start"
        /\ \A j \in (s + 1)..i : flagLog[j].kind # "start"

\* The number of crossings of the chain processed up to entry i.
CrossingsUpTo(i) ==
    Cardinality({j \in ChainStart(i)..i : flagLog[j].kind = "cross"})

----------------------------------------------------------------------------
(* BooleanOperation on plane geometry: shapes are axis-parallel rectangles  *)
(* on a grid.  The grid point (x, y) is the integer x + GridWidth * y, so   *)
(* that two points are equal exactly when their chord angle is zero and,    *)
(* along an axis-parallel edge, the order by chord angle from an endpoint   *)
(* is the order by distance.                                                *)

GridWidth == GMaxCoord + 1

PointFromXY(x, y) == x + GridWidth * y

PointX(p) == p % GridWidth

PointY(p) == p \div GridWidth

\* The rectangle [x0, x0 + w] x [y0, y0 + h] as a counter-clockwise loop
\* whose first vertex is its k-th corner, counted from the upper right one.
RectLoop(x0, y0, w, h, k) ==
    LET corners == <<PointFromXY(x0 + w, y0 + h), PointFromXY(x0, y0 + h),
                     PointFromXY(x0, y0), PointFromXY(x0 + w, y0)>>
    IN LoopFromPoints([i \in 1..4 |-> corners[((i + k - 1) % 4) + 1]])

\* The rectangles that fit on the grid, as <<x0, y0, w, h>>.
FitRects ==
    {t \in (0..GMaxCoord) \X (0..GMaxCoord) \X (1..GMaxCoord) \X (1..GMaxCoord) :
        t[1] + t[3] <= GMaxCoord /\ t[2] + t[4] <= GMaxCoord}

\* The corners a loop starts at: the upper right one and the lower left one.
StartCorners == {0, 2}

\* The shapes handed to Build: polygons of no loop or of one rectangular loop.
GeoShapes ==
    {PolygonFromLoops(<<>>)} \cup
    {PolygonFromLoops(<<RectLoop(t[1], t[2], t[3], t[4], k)>>) :
        t \in FitRects, k \in StartCorners}

\* shape.ChainEdge(chainID, i) of a polygon: the edge from vertex i of the
\* loop to the next vertex, the last edge closing the loop.
ChainEdge(loop, i) == [V0 |-> loop[i], V1 |-> loop[(i % Len(loop)) + 1]]

\* The edges of a loop in edge id order.
LoopEdges(loop) == [i \in 1..Len(loop) |-> ChainEdge(loop, i)]

\* The edges of a shape in edge id order.
RECURSIVE ShapeEdges(_)
ShapeEdges(shape) ==
    IF shape = <<>> THEN <<>>
    ELSE ShapeEdges(SubSeq(shape, 1, Len(shape) - 1)) \o LoopEdges(shape[Len(shape)])

\* The edge e crosses the ray from p towards larger x; an edge owns its
\* lower endpoint and not its upper one, and a point on an edge is left of it.
CrossesRay(e, p) ==
    /\ \/ PointY(e.V0) <= PointY(p) /\ PointY(p) < PointY(e.V1)
       \/ PointY(e.V1) <= PointY(p) /\ PointY(p) < PointY(e.V0)
    /\ PointX(e.V0) > PointX(p)

\* ContainsPointQuery.Contains under VertexModelSemiOpen: the parity of the
\* boundary crossings of a ray from p.
Contains(shape, p) ==
    LET es == ShapeEdges(shape)
    IN Cardinality({i \in 1..Len(es) : CrossesRay(es[i], p)}) % 2 = 1

Horizontal(e) == PointY(e.V0) = PointY(e.V1)

Between(lo, x, hi) == (lo < x /\ x < hi) \/ (hi < x /\ x < lo)

\* CrossingTypeInterior: the edges a and b cross at a point interior to both.
InteriorCrossing(a, b) ==
    \/ /\ Horizontal(a) /\ ~Horizontal(b)
       /\ Between(PointX(a.V0), PointX(b.V0), PointX(a.V1))
       /\ Between(PointY(b.V0), PointY(a.V0), PointY(b.V1))
    \/ /\ ~Horizontal(a) /\ Horizontal(b)
       /\ Between(PointY(a.V0), PointY(b.V0), PointY(a.V1))
       /\ Between(PointX(b.V0), PointX(a.V0), PointX(b.V1))

\* Intersection(a0, a1, b0, b1) of two crossing axis-parallel edges.
Intersection(a, b) ==
    IF Horizontal(a) THEN PointFromXY(PointX(b.V0), PointY(a.V0))
    ELSE PointFromXY(PointX(a.V0), PointY(b.V0))

\* The intersection points collected for one edge: one per crossing edge of
\* the reference index, in the order of CrossingsEdgeMap.
EdgeCrossings(e, ref) ==
    LET cross == SelectSeq(ShapeEdges(ref), LAMBDA c : InteriorCrossing(e, c))
    IN [j \in 1..Len(cross) |-> Intersection(e, cross[j])]

\* What processRegion reads for chain c of the query index: the containment
\* of its first vertex and the crossings of each of its edges.
ChainInput(loop, ref) ==
    [inside |-> Contains(ref, ChainEdge(loop, 1).V0),
     edges |-> [i \in 1..Len(loop) |->
                   [V0 |-> ChainEdge(loop, i).V0, V1 |-> ChainEdge(loop, i).V1,
                    crossings |-> EdgeCrossings(ChainEdge(loop, i), ref)]]]

RegionInput(query, ref) == [c \in 1..Len(query) |-> ChainInput(query[c], ref)]

GeoBuild ==
    /\ variant = "none"
    /\ \E A, B \in GeoShapes :
          \E r \in {BooleanOperationBuild(op, RegionInput(A, B), RegionInput(B, A), polygon)} :
             /\ opts' = r.builder.opts
             /\ layers' = r.builder.layers
             /\ inputVertices' = r.builder.inputVertices
             /\ inputEdges' = r.builder.inputEdges
             /\ sites' = r.result.sites
             /\ vMap' = r.result.vMap
             /\ edges' = r.result.edges
             /\ calls' = r.result.calls
             /\ err' = r.result.err
             /\ polygon' = r.result.polygon
             /\ emitLog' = r.log
             /\ opErr' = r.result.err
             /\ shapeA' = A
             /\ shapeB' = B
             /\ flagLog' = r.flags
    /\ builds' = 1
    /\ variant' = "full"
    /\ UNCHANGED <<op, bufVars, queryVars, auxVars>>

InitGeo ==
    /\ \E t \in OpTypes : op = NewBooleanOperation(t, NewPolygonLayer(1))
    /\ emitLog = <<>>
    /\ opErr = "none"
    /\ InitBuilder({IdentitySnapFunction(0)}, {TRUE},
                   {PolygonFromLoops(<<LoopFromPoints(OldLoop)>>)})
    /\ variant = "none" /\ shapeA = <<>> /\ shapeB = <<>> /\ flagLog = <<>>
    /\ NoBuffer
    /\ NoQuery
    /\ NoAux

\* One BooleanOperation on two shapes, built once.
NextGeo == GeoBuild

SpecGeo == InitGeo /\ [][NextGeo]_vars

\* The loops a and b have the same vertices in the same cyclic order.
SameLoop(a, b) ==
    /\ Len(a) = Len(b)
    /\ \E k \in 0..(Len(a) - 1) : \A i \in 1..Len(a) : b[i] = a[((i + k - 1) % Len(a)) + 1]

\* The loop sets p and q are equal up to the loops' start vertices.
SameLoopSet(p, q) ==
    /\ Len(p) = Len(q)
    /\ \A i \in 1..Len(q) :
          Cardinality({j \in 1..Len(p) : SameLoop(p[j], q[i])}) = 1

\* C12: Union with both inputs equal to A produces A's loops, each exactly
\* once, up to the choice of the start vertex.
C12_UnionIdempotent ==
    (variant = "full" /\ op.OpType = BooleanOperationOpTypeUnion /\ shapeB = shapeA) =>
        SameLoopSet(polygon[1], shapeA)

\* The segments the builder was handed, as <<start point, end point>>.
Emitted ==
    {<<inputVertices[inputEdges[i].v0], inputVertices[inputEdges[i].v1]>> :
        i \in 1..Len(inputEdges)}

Min(S) == CHOOSE x \in S : \A y \in S : x <= y

Max(S) == CHOOSE x \in S : \A y \in S : x >= y

\* The bounding box of a loop.
BoxOf(l) ==
    [x0 |-> Min({PointX(l[i]) : i \in 1..Len(l)}), x1 |-> Max({PointX(l[i]) : i \in 1..Len(l)}),
     y0 |-> Min({PointY(l[i]) : i \in 1..Len(l)}), y1 |-> Max({PointY(l[i]) : i \in 1..Len(l)})]

\* p lies on the boundary of the rectangle l.
OnBoundary(l, p) ==
    LET b == BoxOf(l)
    IN /\ b.x0 <= PointX(p) /\ PointX(p) <= b.x1
       /\ b.y0 <= PointY(p) /\ PointY(p) <= b.y1
       /\ PointX(p) \in {b.x0, b.x1} \/ PointY(p) \in {b.y0, b.y1}

\* No vertex of one rectangle lies on the boundary of the other, so the
\* boundaries meet at interior crossings only.
ProperPosition(la, lb) ==
    /\ \A i \in 1..Len(la) : ~OnBoundary(lb, la[i])
    /\ \A i \in 1..Len(lb) : ~OnBoundary(la, lb[i])

\* The number of points at which the boundaries of la and lb cross.
NumCrossings(la, lb) ==
    Cardinality({<<i, j>> \in (1..Len(la)) \X (1..Len(lb)) :
                    InteriorCrossing(ChainEdge(la, i), ChainEdge(lb, j))})

\* The part of the edge e inside the rectangle l, directed as e: e is cut
\* to the box along its own axis; empty when e misses the open box.
ClipRange(lo, hi, from, to) ==
    LET a == Max({lo, Min({from, to})})
        b == Min({hi, Max({from, to})})
    IN IF a >= b THEN <<>> ELSE IF from < to THEN <<a, b>> ELSE <<b, a>>

Clip(e, l) ==
    LET b == BoxOf(l)
    IN IF Horizontal(e)
       THEN LET r == ClipRange(b.x0, b.x1, PointX(e.V0), PointX(e.V1))
            IN IF r = <<>> \/ ~(b.y0 < PointY(e.V0) /\ PointY(e.V0) < b.y1) THEN <<>>
               ELSE <<PointFromXY(r[1], PointY(e.V0)), PointFromXY(r[2], PointY(e.V0))>>
       ELSE LET r == ClipRange(b.y0, b.y1, PointY(e.V0), PointY(e.V1))
            IN IF r = <<>> \/ ~(b.x0 < PointX(e.V0) /\ PointX(e.V0) < b.x1) THEN <<>>
               ELSE <<PointFromXY(PointX(e.V0), r[1]), PointFromXY(PointX(e.V0), r[2])>>

\* The sub-segments of the boundary of la that lie inside lb.
InsideParts(la, lb) == {Clip(ChainEdge(la, i), lb) : i \in 1..Len(la)} \ {<<>>}

\* Two rectangles whose boundaries cross at exactly two points.
TwoCrossings ==
    /\ variant = "full"
    /\ Len(shapeA) = 1 /\ Len(shapeB) = 1
    /\ ProperPosition(shapeA[1], shapeB[1])
    /\ NumCrossings(shapeA[1], shapeB[1]) = 2

\* C13: for two loops whose boundaries cross at exactly two points,
\* Intersection emits exactly the sub-segments of A inside B and those of B
\* inside A, each once, and the polygon layer assembles them into one loop.
C13_IntersectionOneLoop ==
    (TwoCrossings /\ op.OpType = BooleanOperationOpTypeIntersection) =>
        /\ Emitted = InsideParts(shapeA[1], shapeB[1]) \cup InsideParts(shapeB[1], shapeA[1])
        /\ Len(inputEdges) = Cardinality(Emitted)
        /\ Len(polygon[1]) = 1
        /\ {polygon[1][1][i] : i \in 1..Len(polygon[1][1])} = {s[1] : s \in Emitted}

\* The overlapping squares [0,2]x[0,2] and [1,3]x[1,3], intersected into one loop.
C13_Witness ==
    /\ TwoCrossings /\ op.OpType = BooleanOperationOpTypeIntersection
    /\ shapeA = PolygonFromLoops(<<RectLoop(0, 0, 2, 2, 0)>>)
    /\ shapeB = PolygonFromLoops(<<RectLoop(1, 1, 2, 2, 0)>>)
    /\ Len(polygon[1]) = 1 /\ Len(polygon[1][1]) = 4

\* A rectangle that pokes through one side of the other: one edge of A
\* carries both crossings.
C13_WitnessOneEdge ==
    /\ TwoCrossings /\ op.OpType = BooleanOperationOpTypeIntersection
    /\ \E i \in 1..Len(shapeA[1]) : Len(EdgeCrossings(ChainEdge(shapeA[1], i), shapeB)) = 2
    /\ Len(polygon[1]) = 1

\* The rectangle lb lies strictly inside the rectangle la.
StrictlyInside(lb, la) ==
    /\ BoxOf(la).x0 < BoxOf(lb).x0 /\ BoxOf(lb).x1 < BoxOf(la).x1
    /\ BoxOf(la).y0 < BoxOf(lb).y0 /\ BoxOf(lb).y1 < BoxOf(la).y1

Nested ==
    /\ variant = "full"
    /\ Len(shapeA) = 1 /\ Len(shapeB) = 1
    /\ StrictlyInside(shapeB[1], shapeA[1])

\* C14: for a loop B strictly inside a loop A, Difference emits every edge
\* of A and every edge of B, and the polygon layer assembles exactly two
\* loops, the boundary of A and the boundary of B.
C14_DifferenceShellAndHole ==
    (Nested /\ op.OpType = BooleanOperationOpTypeDifference) =>
        /\ Emitted = {<<ChainEdge(shapeA[1], i).V0, ChainEdge(shapeA[1], i).V1>> :
                         i \in 1..Len(shapeA[1])}
                     \cup {<<ChainEdge(shapeB[1], i).V0, ChainEdge(shapeB[1], i).V1>> :
                              i \in 1..Len(shapeB[1])}
        /\ Len(inputEdges) = Len(shapeA[1]) + Len(shapeB[1])
        /\ Len(polygon[1]) = 2
        /\ SameLoopSet(polygon[1], shapeA \o shapeB)

\* The square [0,3]x[0,3] minus the concentric square [1,2]x[1,2].
C14_Witness ==
    /\ Nested /\ op.OpType = BooleanOperationOpTypeDifference
    /\ shapeA = PolygonFromLoops(<<RectLoop(0, 0, 3, 3, 0)>>)
    /\ shapeB = PolygonFromLoops(<<RectLoop(1, 1, 1, 1, 0)>>)
    /\ Len(polygon[1]) = 2

----------------------------------------------------------------------------
(* BooleanOperation, the build path that implements Union only *)

\* The error Build returns for Intersection.
IntersectionNotImplemented == <<"intersection not fully implemented in this port", 0>>

\* The inner loop of addEdges over the edges of one shape, from i on.
RECURSIVE addShapeEdges(_, _, _)
addShapeEdges(b, shape, i) ==
    IF i > Len(shape) THEN b
    ELSE addShapeEdges(AddEdgeTo(b.inputVertices, b.inputEdges, shape[i].V0, shape[i].V1),
                       shape, i + 1)

\* addEdges: every edge of every shape of the index, from shape k on.
RECURSIVE addEdges(_, _, _)
addEdges(b, index, k) ==
    IF k > Len(index) THEN b
    ELSE addEdges(addShapeEdges(b, index[k], 1), index, k + 1)

\* BooleanOperation.Build of the union-only build path.  ran tells whether
\* builder.Build was reached.
UnionOnlyBuild(o, indexA, indexB, polys) ==
    LET b0 == [NewBuilder([SnapFunction |-> o.Options.SnapFunction,
                           SplitCrossingEdges |-> o.Options.SplitCrossingEdges])
                  EXCEPT !.layers = o.Layers]
        in0 == [inputVertices |-> b0.inputVertices, inputEdges |-> b0.inputEdges]
    IN IF o.OpType = BooleanOperationOpTypeUnion
       THEN LET in == addEdges(addEdges(in0, indexA, 1), indexB, 1)
            IN [ran |-> TRUE, in |-> in,
                result |-> BuilderBuild(b0.opts, b0.layers, in.inputVertices,
                                        in.inputEdges, polys, <<>>, 1)]
       ELSE IF o.OpType = BooleanOperationOpTypeIntersection
       THEN [ran |-> FALSE, in |-> in0,
             result |-> [err |-> IntersectionNotImplemented]]
       ELSE [ran |-> TRUE, in |-> in0,
             result |-> BuilderBuild(b0.opts, b0.layers, in0.inputVertices,
                                     in0.inputEdges, polys, <<>>, 1)]

UPoints == 0..UMaxCoord

\* The ShapeIndexes handed to the union-only Build: shapes are edge lists.
UIndexes ==
    SeqsUpTo(SeqsUpTo([V0 : UPoints, V1 : UPoints], UMaxShapeEdges), UMaxShapes)

UnionOnly ==
    /\ variant = "none"
    /\ \E indexA, indexB \in UIndexes :
          \E r \in {UnionOnlyBuild(op, indexA, indexB, polygon)} :
             /\ opErr' = r.result.err
             /\ inputVertices' = r.in.inputVertices
             /\ inputEdges' = r.in.inputEdges
             /\ layers' = op.Layers
             /\ IF r.ran
                THEN /\ sites' = r.result.sites
                     /\ vMap' = r.result.vMap
                     /\ edges' = r.result.edges
                     /\ calls' = r.result.calls
                     /\ err' = r.result.err
                     /\ polygon' = r.result.polygon
                     /\ builds' = 1
                ELSE UNCHANGED <<sites, vMap, edges, calls, err, polygon, builds>>
    /\ variant' = "unionOnly"
    /\ UNCHANGED <<opts, op, emitLog, shapeA, shapeB, flagLog, bufVars, queryVars, auxVars>>

InitUnionOnly ==
    /\ \E t \in OpTypes : op = NewBooleanOperation(t, NewPolygonLayer(1))
    /\ emitLog = <<>>
    /\ opErr = "none"
    /\ InitBuilder({IdentitySnapFunction(0)}, {TRUE},
                   {PolygonFromLoops(<<>>), PolygonFromLoops(<<LoopFromPoints(OldLoop)>>)})
    /\ variant = "none" /\ shapeA = <<>> /\ shapeB = <<>> /\ flagLog = <<>>
    /\ NoBuffer
    /\ NoQuery
    /\ NoAux

\* One BooleanOperation of the union-only build path, built once.
NextUnionOnly == UnionOnly

SpecUnionOnly == InitUnionOnly /\ [][NextUnionOnly]_vars

\* C11: in the union-only build path, Build returns an error for
\* Intersection, Difference and SymmetricDifference, and no layer Build has
\* run when it does.
C11_UnsupportedReported ==
    (variant = "unionOnly" /\ op.OpType # BooleanOperationOpTypeUnion) =>
        (opErr # NilError /\ calls = <<>>)

----------------------------------------------------------------------------
(* BufferOperation *)

\* Points of the buffer model are pairs; offset points, axes and directions
\* are kept symbolic.  Angles are in thousandths of a radian: RightAngle is
\* math.Pi / 2.
RightAngle == 1571

BufPoints == {<<x, y>> : x \in 0..MaxBufCoord, y \in 0..MaxBufCoord} \ {<<MaxBufCoord, MaxBufCoord>>}

ZeroPoint == <<"zero">>

Sign(x) == IF x > 0 THEN 1 ELSE IF x < 0 THEN -1 ELSE 0

\* The orientation of the triple a, b, c.
RobustSign(a, b, c) ==
    Sign((b[1] - a[1]) * (c[2] - a[2]) - (b[2] - a[2]) * (c[1] - a[1]))

\* The point at angle r from origin in direction dir; origin itself at angle 0.
PointOnRay(origin, dir, r) == IF r = 0 THEN origin ELSE <<"ray", origin, dir, r>>

\* axis.Mul(-1)
Negate(axis) == [axis EXCEPT !.neg = ~@]

\* ErrorFraction is in thousandths.  The values the model tries: the default
\* 0.01, the 0.001 of the point test, zero, one, and 0.005.
ErrorFractionValues == <<10, 1, 0, 1000, 5>>

ErrorFractions == {ErrorFractionValues[i] : i \in 1..NumErrorFractions}

\* The step between arc vertices, 2 * math.Pi / (math.Pi / math.Acos(1 - e)),
\* that is 2 * acos(1 - e), in thousandths of a radian for e in thousandths.
StepFor(errorFraction) ==
    CASE errorFraction = 0 -> 0
      [] errorFraction = 1 -> 89
      [] errorFraction = 5 -> 200
      [] errorFraction = 10 -> 283
      [] errorFraction = 1000 -> 2 * RightAngle

NewBufferOperation(layer, o) ==
    [Options |-> o, ResultLayer |-> layer,
     bufferSign |-> Sign(o.BufferRadius), absRadius |-> Abs(o.BufferRadius),
     vertexStep |-> StepFor(o.ErrorFraction), edgeStep |-> StepFor(o.ErrorFraction),
     pointStep |-> StepFor(o.ErrorFraction),
     path |-> <<>>, sweepA |-> ZeroPoint, sweepB |-> ZeroPoint,
     inputStart |-> ZeroPoint, offsetStart |-> ZeroPoint,
     haveInputStart |-> FALSE, haveOffsetStart |-> FALSE]

getEdgeAxis(bo, a, b) == [cross |-> <<b, a>>, neg |-> bo.bufferSign < 0]

setInputVertex(bo, p) ==
    IF bo.haveInputStart THEN [bo EXCEPT !.sweepA = p]
    ELSE [bo EXCEPT !.inputStart = p, !.haveInputStart = TRUE, !.sweepA = p]

addOffsetVertex(bo, p) ==
    LET b1 == [bo EXCEPT !.path = Append(@, p), !.sweepB = p]
    IN IF bo.haveOffsetStart THEN b1
       ELSE [b1 EXCEPT !.offsetStart = p, !.haveOffsetStart = TRUE]

closeBufferRegion(bo) == bo

addEdgeArc(bo, a, b) ==
    setInputVertex(addOffsetVertex(bo, PointOnRay(b, getEdgeAxis(bo, a, b), bo.absRadius)), b)

closeEdgeArc(bo, a, b) ==
    addOffsetVertex(bo, PointOnRay(b, getEdgeAxis(bo, a, b), bo.absRadius))

addVertexArc(bo, v, start, end) == addOffsetVertex(bo, PointOnRay(v, end, bo.absRadius))

bufferEdgeAndVertex(bo, a, b, c) ==
    LET b1 == addEdgeArc(bo, a, b)
        isConvex == (bo.bufferSign * RobustSign(a, b, c)) >= 0
    IN IF isConvex
       THEN addVertexArc(b1, b, getEdgeAxis(b1, a, b), getEdgeAxis(b1, b, c))
       ELSE addOffsetVertex(closeEdgeArc(b1, a, b), b)

addStartCap(bo, a, b) ==
    LET axis == getEdgeAxis(bo, a, b)
    IN IF bo.Options.EndCapStyle = "Round"
       THEN addVertexArc(bo, a, Negate(axis), axis)
       ELSE addOffsetVertex(bo, PointOnRay(a, Negate(axis), bo.absRadius))

addEndCap(bo, a, b) ==
    LET axis == getEdgeAxis(bo, a, b)
    IN IF bo.Options.EndCapStyle = "Round"
       THEN addVertexArc(bo, b, axis, Negate(axis))
       ELSE closeEdgeArc(bo, a, b)

\* outputPath: a path of three or more vertices becomes a loop of the result
\* layer's polygon when that layer is a PolygonLayer; the path is reset.
outputPath(bo, polys) ==
    [op |-> [bo EXCEPT !.path = <<>>, !.haveInputStart = FALSE, !.haveOffsetStart = FALSE],
     polygon |-> IF bo.ResultLayer.kind = "polygon" /\ Len(bo.path) >= 3
                 THEN [polys EXCEPT ![bo.ResultLayer.polygon] =
                          Append(@, LoopFromPoints(bo.path))]
                 ELSE polys,
     path |-> bo.path]

\* An Add* call that returns before it touches anything.
Skipped(bo, polys) == [op |-> bo, polygon |-> polys, path |-> <<>>]

\* The inner loop of AddPoint: the arc vertices of quadrant i, from angle on.
RECURSIVE QuadrantArc(_, _, _, _)
QuadrantArc(bo, p, i, angle) ==
    IF angle < RightAngle
    THEN QuadrantArc(addOffsetVertex(bo, PointOnRay(p, <<"dir", p, i, angle>>, bo.absRadius)),
                     p, i, angle + bo.pointStep)
    ELSE [op |-> bo, angle |-> angle]

\* The outer loop with every quadrant started at angle zero.
RECURSIVE QuadrantsRestart(_, _, _, _)
QuadrantsRestart(bo, p, i, angle) ==
    IF i >= 4 THEN bo
    ELSE QuadrantsRestart(QuadrantArc(bo, p, i, 0).op, p, i + 1, 0)

\* The outer loop of AddPoint over the four quadrants, from quadrant i on.
RECURSIVE Quadrants(_, _, _, _)
Quadrants(bo, p, i, angle) ==
    IF i >= 4 THEN bo
    ELSE LET q == QuadrantArc(bo, p, i, angle)
         IN Quadrants(q.op, p, i + 1, q.angle - RightAngle)

AddPoint(bo, p, polys) ==
    IF bo.bufferSign = 0 THEN Skipped(bo, polys)
    ELSE outputPath(closeBufferRegion(Quadrants(setInputVertex(bo, p), p, 0, 0)), polys)

\* The forward loop of AddPolyline over the interior vertices, from i on.
RECURSIVE PolylineForward(_, _, _)
PolylineForward(bo, pts, i) ==
    IF i > Len(pts) - 2 THEN bo
    ELSE PolylineForward(bufferEdgeAndVertex(bo, pts[i], pts[i + 1], pts[i + 2]), pts, i + 1)

\* The return loop of AddPolyline, from i down to the first vertex.
RECURSIVE PolylineReturn(_, _, _)
PolylineReturn(bo, pts, i) ==
    IF i < 1 THEN bo
    ELSE PolylineReturn(bufferEdgeAndVertex(bo, pts[i + 2], pts[i + 1], pts[i]), pts, i - 1)

\* AddPolyline: skipped below two vertices only; no test of bufferSign.
AddPolyline(bo, pts, polys) ==
    IF Len(pts) < 2 THEN Skipped(bo, polys)
    ELSE LET n == Len(pts)
             b1 == addStartCap(setInputVertex(bo, pts[1]), pts[1], pts[2])
             b2 == PolylineForward(b1, pts, 1)
             b3 == addEndCap(addEdgeArc(b2, pts[n - 1], pts[n]), pts[n - 1], pts[n])
             b4 == PolylineReturn(b3, pts, n - 2)
             b5 == addEdgeArc(b4, pts[2], pts[1])
         IN outputPath(closeBufferRegion(b5), polys)

\* The loop of AddLoop over the vertices, from i on (pts is cyclic).
RECURSIVE LoopAround(_, _, _)
LoopAround(bo, pts, i) ==
    IF i > Len(pts) THEN bo
    ELSE LoopAround(bufferEdgeAndVertex(bo, pts[i], pts[(i % Len(pts)) + 1],
                                        pts[((i + 1) % Len(pts)) + 1]), pts, i + 1)

AddLoop(bo, pts, polys) ==
    IF Len(pts) < 3 THEN Skipped(bo, polys)
    ELSE outputPath(closeBufferRegion(LoopAround(setInputVertex(bo, pts[1]), pts, 1)), polys)

\* The state an Add* call leaves.
BufApply(name, r) ==
    /\ lastCall' = name
    /\ bufop' = r.op
    /\ bufCalls' = bufCalls + 1
    /\ polygon' = r.polygon
    /\ lastPath' = r.path
    /\ UNCHANGED <<opts, layers, inputVertices, inputEdges, sites, vMap, edges,
                   calls, err, builds, boolVars, queryVars, auxVars>>

\* AddPoint returns only if its inner loop ends: with a point step of zero
\* the angle never reaches the right angle and the call does not return.
BufAddPoint ==
    /\ bufCalls < MaxBufOps
    /\ bufop.bufferSign = 0 \/ bufop.pointStep > 0
    /\ \E p \in BufPoints : \E r \in {AddPoint(bufop, p, polygon)} : BufApply("AddPoint", r)

BufAddPolyline ==
    /\ bufCalls < MaxBufOps
    /\ \E pts \in SeqsUpTo(BufPoints, MaxPathLen) : BufApply("AddPolyline", AddPolyline(bufop, pts, polygon))

BufAddLoop ==
    /\ bufCalls < MaxBufOps
    /\ \E pts \in SeqsUpTo(BufPoints, MaxPathLen) : BufApply("AddLoop", AddLoop(bufop, pts, polygon))

BufferOptions ==
    [BufferRadius : (-MaxBufRadius)..MaxBufRadius, ErrorFraction : ErrorFractions,
     EndCapStyle : {"Round", "Flat"}, PolylineSide : {"Both"}]

InitBuffer ==
    /\ \E o \in BufferOptions, layer \in {NewPolygonLayer(1), NewFailingLayer("unused")} :
          bufop = NewBufferOperation(layer, o)
    /\ lastPath = <<>>
    /\ bufCalls = 0
    /\ lastCall = "none"
    /\ InitBuilder({IdentitySnapFunction(0)}, {FALSE}, {PolygonFromLoops(<<>>)})
    /\ NoBool
    /\ NoQuery
    /\ NoAux

NextBuffer == BufAddPoint \/ BufAddPolyline \/ BufAddLoop

SpecBuffer == InitBuffer /\ [][NextBuffer]_vars

\* C10: with a buffer radius of exactly zero AddPoint, AddPolyline and
\* AddLoop append no vertex to the path and no loop to the result polygon.
C10_ZeroRadiusNoOp ==
    [][bufop.bufferSign = 0 => (lastPath' = <<>> /\ polygon' = polygon)]_vars

\* DefaultBufferOperationOptions().ErrorFraction, in thousandths.
DefaultErrorFraction == 10

\* The number of multiples of step below a full turn.
NumCircleVertices(step) ==
    CHOOSE n \in 1..(4 * RightAngle) :
        n * step >= 4 * RightAngle /\ (n - 1) * step < 4 * RightAngle

\* The k-th vertex of the circle of radius r around p, k counted from zero:
\* k steps from the start, in the quadrant and at the angle within the
\* quadrant that this turn falls in.
CirclePoint(p, r, step, k) ==
    PointOnRay(p, <<"dir", p, (k * step) \div RightAngle, (k * step) % RightAngle>>, r)

Circle(p, r, step) ==
    [k \in 1..NumCircleVertices(step) |-> CirclePoint(p, r, step, k - 1)]

----------------------------------------------------------------------------
(* ShapeNestingQuery.  Points are pairs <<x, y>> of the plane; chains and   *)
(* ParentID keep the source's numbering: chains 0..NumChains-1, -1 for a    *)
(* shell.                                                                   *)

\* The square [a, b] x [a, b] as a chain starting at its lower left corner.
NestSquare(a, b, ccw) ==
    IF ccw THEN <<<<a, a>>, <<b, a>>, <<b, b>>, <<a, b>>>>
    ELSE <<<<a, a>>, <<a, b>>, <<b, b>>, <<b, a>>>>

\* The shapes of the index: up to NMaxChains squares; the first chain is
\* counter-clockwise, the others all counter-clockwise or all clockwise.
NestShapes ==
    {[c \in 1..Len(q) |-> NestSquare(q[c][1], q[c][2], c = 1 \/ ccw)] :
        q \in SeqsUpTo({ab \in (0..NMaxCoord) \X (0..NMaxCoord) : ab[1] < ab[2]}, NMaxChains),
        ccw \in BOOLEAN}

\* FirstChainDatumStrategy
FirstChainDatumStrategy(shape) == 0

NewShapeNestingQuery(shape) ==
    [shape |-> shape, DatumStrategy |-> "FirstChainDatumStrategy"]

NumChains(shape) == Len(shape)

\* shape.ChainEdge(chain, i).V0, with the source's 0-based chain and i.
ChainVertex(shape, chain, i) == shape[chain + 1][i + 1]

\* The edges of the shape as <<chain, V0, V1>>; ChainPosition(edgeID).ChainID
\* is the first component.
NestEdges(shape) ==
    {<<c, ChainVertex(shape, c, i), ChainVertex(shape, c, (i + 1) % Len(shape[c + 1]))>> :
        c \in 0..(NumChains(shape) - 1), i \in 0..3}

\* CrossingTypeInterior for the edge a-b against the edge c-d.
CrossesInterior(a, b, c, d) ==
    /\ RobustSign(a, b, c) * RobustSign(a, b, d) < 0
    /\ RobustSign(c, d, a) * RobustSign(c, d, b) < 0

\* crossingQuery.Crossings(a, b, shape, CrossingTypeInterior)
Crossings(a, b, shape) == {e \in NestEdges(shape) : CrossesInterior(a, b, e[2], e[3])}

\* OrderedCCW(a, b, c, o): OA, OB, OC are met in this order sweeping
\* counter-clockwise around o.
OrderedCCW(a, b, c, o) ==
    LET s1 == IF RobustSign(b, o, a) # -1 THEN 1 ELSE 0
        s2 == IF RobustSign(c, o, b) # -1 THEN 1 ELSE 0
        s3 == IF RobustSign(a, o, c) = 1 THEN 1 ELSE 0
    IN s1 + s2 + s3 >= 2

\* The element of a set of one element; used to compute a value once.
TheOne(S) == CHOOSE x \in S : TRUE

\* parentSet[chain] as the loop over the chains leaves it: the two seeds,
\* then one toggle per crossing edge.
ParentRow(shape, datumShell, chain) ==
    LET n == NumChains(shape)
        v0 == ChainVertex(shape, datumShell, 0)
        v1 == ChainVertex(shape, datumShell, 1)
        v2 == ChainVertex(shape, datumShell, 2)
        startPoint == v1
        targetPoint == IF ChainVertex(shape, chain, 0) = startPoint
                       THEN ChainVertex(shape, chain, 1)
                       ELSE ChainVertex(shape, chain, 0)
        targetPrev == ChainVertex(shape, chain, Len(shape[chain + 1]) - 1)
        targetNext == ChainVertex(shape, chain, 1)
    IN TheOne({[p \in 0..(n - 1) |->
                   (\/ p = datumShell /\ inDatum
                    \/ p = chain /\ inTarget)
                   # (Cardinality({e \in crossed : e[1] = p}) % 2 = 1)] :
               crossed \in {Crossings(startPoint, targetPoint, shape)},
               inDatum \in {OrderedCCW(v2, targetPoint, v0, v1)},
               inTarget \in {OrderedCCW(targetNext, startPoint, targetPrev, targetPoint)}})

\* parentSet: the row of the datum chain is never written.
ParentSet(shape, datumShell) ==
    [i \in 0..(NumChains(shape) - 1) |->
        IF i = datumShell THEN [p \in 0..(NumChains(shape) - 1) |-> FALSE]
        ELSE ParentRow(shape, datumShell, i)]

\* parents of chain i: the p # i with parentSet[i][p], in ascending order,
\* from p on.
RECURSIVE Parents(_, _, _, _)
Parents(parentSet, n, i, p) ==
    IF p >= n THEN <<>>
    ELSE IF parentSet[i][p] /\ p # i THEN <<p>> \o Parents(parentSet, n, i, p + 1)
    ELSE Parents(parentSet, n, i, p + 1)

\* The loop over parents[1:]: bestParent moves to p when parentSet[bestParent][p].
RECURSIVE BestParent(_, _, _, _)
BestParent(parentSet, parents, k, bestParent) ==
    IF k > Len(parents) THEN bestParent
    ELSE BestParent(parentSet, parents, k + 1,
             IF parentSet[bestParent][parents[k]] THEN parents[k] ELSE bestParent)

\* A single parent rule that records the parent and not the hole.
RECURSIVE ResolveHierarchyNoHoles(_, _, _, _)
ResolveHierarchyNoHoles(relations, parentSet, n, i) ==
    IF i >= n THEN relations
    ELSE LET parents == Parents(parentSet, n, i, 0)
             parent == IF Len(parents) = 1 THEN parents[1]
                       ELSE BestParent(parentSet, parents, 2, parents[1])
             this == IF Len(parents) = 0 THEN relations
                     ELSE [relations EXCEPT ![i].ParentID = parent]
         IN TheOne({ResolveHierarchyNoHoles(r, parentSet, n, i + 1) : r \in {this}})

\* The single parent rule, from chain i on.
RECURSIVE ResolveHierarchy(_, _, _, _)
ResolveHierarchy(relations, parentSet, n, i) ==
    IF i >= n THEN relations
    ELSE LET parents == Parents(parentSet, n, i, 0)
             parent == IF Len(parents) = 1 THEN parents[1]
                       ELSE BestParent(parentSet, parents, 2, parents[1])
             this == IF Len(parents) = 0 THEN relations
                     ELSE [relations EXCEPT ![i].ParentID = parent,
                                            ![parent].Holes = Append(@, i)]
         IN TheOne({ResolveHierarchy(r, parentSet, n, i + 1) : r \in {this}})

\* ComputeShapeNesting for a polygon shape; <<>> is the nil slice.  The
\* relations are a function on 0..NumChains-1.
ComputeShapeNesting(q) ==
    LET shape == q.shape
        n == NumChains(shape)
    IN IF n = 0 THEN <<>>
       ELSE IF n = 1 THEN [i \in {0} |-> [ParentID |-> -1, Holes |-> <<>>]]
       ELSE TheOne({ResolveHierarchy([i \in 0..(n - 1) |-> [ParentID |-> -1, Holes |-> <<>>]],
                                     parentSet, n, 0) :
                    parentSet \in {ParentSet(shape, FirstChainDatumStrategy(shape))}})

Nesting ==
    /\ ~nest.asked
    /\ \E shape \in NestShapes :
          nest' = [asked |-> TRUE, shape |-> shape,
                   relations |-> ComputeShapeNesting(NewShapeNestingQuery(shape))]
    /\ UNCHANGED <<builderVars, boolVars, bufVars, simp, auxVars>>

InitNesting ==
    /\ NoQuery
    /\ NoAux
    /\ InitBuilder({IdentitySnapFunction(0)}, {TRUE}, {PolygonFromLoops(<<>>)})
    /\ NoBool
    /\ NoBuffer

\* One ShapeNestingQuery, asked once.
NextNesting == Nesting

SpecNesting == InitNesting /\ [][NextNesting]_vars

\* The square of chain c lies strictly inside the square of chain d.
NestInside(shape, c, d) ==
    /\ shape[d + 1][1][1] < shape[c + 1][1][1]
    /\ shape[c + 1][3][1] < shape[d + 1][3][1]

\* The squares of chains c and d have no point in common.
NestDisjoint(shape, c, d) ==
    \/ shape[c + 1][3][1] < shape[d + 1][1][1]
    \/ shape[d + 1][3][1] < shape[c + 1][1][1]

\* The chains of the shape neither cross nor touch.
ValidNesting(shape) ==
    \A c, d \in 0..(NumChains(shape) - 1) :
        c # d => \/ NestInside(shape, c, d)
                 \/ NestInside(shape, d, c)
                 \/ NestDisjoint(shape, c, d)

\* The chains other than i that contain chain i.
Containers(shape, i) ==
    {p \in 0..(NumChains(shape) - 1) : p # i /\ NestInside(shape, i, p)}

\* C15: a chain contained by more than one chain gets as ParentID the most
\* deeply nested of them, the one that all the others contain.
C15_MostNestedParent ==
    (nest.asked /\ ValidNesting(nest.shape)) =>
        \A i \in 0..(NumChains(nest.shape) - 1) :
            Cardinality(Containers(nest.shape, i)) > 1 =>
                /\ nest.relations[i].ParentID \in Containers(nest.shape, i)
                /\ \A p \in Containers(nest.shape, i) \ {nest.relations[i].ParentID} :
                      NestInside(nest.shape, nest.relations[i].ParentID, p)

\* The chain reached from chain i after k steps along ParentID; -1 once a
\* shell has been passed.
RECURSIVE Ancestor(_, _, _)
Ancestor(relations, i, k) ==
    IF k = 0 \/ i < 0 THEN i ELSE Ancestor(relations, relations[i].ParentID, k - 1)

\* The relations of nest form a forest: from every chain ParentID leads to
\* -1 without passing a chain twice, chain i is in the Holes of p (once)
\* exactly when its ParentID is p, and a shape of one chain yields one
\* relation, a shell.
IsForest ==
        LET n == NumChains(nest.shape)
            chains == 0..(n - 1)
        IN /\ n >= 1 => DOMAIN nest.relations = chains
           /\ \A i \in chains : Ancestor(nest.relations, i, n) = -1
           /\ \A i, p \in chains :
                 (\E k \in 1..Len(nest.relations[p].Holes) : nest.relations[p].Holes[k] = i)
                     <=> nest.relations[i].ParentID = p
           /\ \A p \in chains : \A k, m \in 1..Len(nest.relations[p].Holes) :
                 k # m => nest.relations[p].Holes[k] # nest.relations[p].Holes[m]
           /\ n = 1 => nest.relations[0].ParentID < 0

C16_WitnessSingle ==
    /\ nest.asked /\ NumChains(nest.shape) = 1
    /\ nest.relations[0].ParentID = -1

----------------------------------------------------------------------------
(* PolylineSimplifier.  Angles are whole multiples of 30 degrees, Pi of     *)
(* them making a half turn; s1.Interval is modelled on these angles.       *)

Pi == 6

EmptyInterval == [Lo |-> Pi, Hi |-> -Pi]

FullInterval == [Lo |-> -Pi, Hi |-> Pi]

IsFull(i) == i.Lo = -Pi /\ i.Hi = Pi

IsEmpty(i) == i.Lo = Pi /\ i.Hi = -Pi

IsInverted(i) == i.Lo > i.Hi

\* math.Remainder(x, 2 * math.Pi): x less the multiple of a full turn nearest
\* to it, the even multiple on a tie.
Remainder(x) ==
    LET m == x % (2 * Pi)
        n == (x - m) \div (2 * Pi)
    IN IF m < Pi THEN m
       ELSE IF m > Pi THEN m - 2 * Pi
       ELSE IF n % 2 = 0 THEN Pi ELSE -Pi

IntervalFromEndpoints(lo, hi) ==
    [Lo |-> IF lo = -Pi /\ hi # Pi THEN Pi ELSE lo,
     Hi |-> IF hi = -Pi /\ lo # Pi THEN Pi ELSE hi]

positiveDistance(a, b) ==
    IF b - a >= 0 THEN b - a ELSE (b + Pi) - (a - Pi)

IntervalFromPointPair(a, b) ==
    LET a1 == IF a = -Pi THEN Pi ELSE a
        b1 == IF b = -Pi THEN Pi ELSE b
    IN IF positiveDistance(a1, b1) <= Pi THEN [Lo |-> a1, Hi |-> b1]
       ELSE [Lo |-> b1, Hi |-> a1]

IntervalLength(i) ==
    LET l == i.Hi - i.Lo
    IN IF l >= 0 THEN l ELSE IF l + 2 * Pi > 0 THEN l + 2 * Pi ELSE -1

fastContains(i, p) ==
    IF IsInverted(i) THEN (p >= i.Lo \/ p <= i.Hi) /\ ~IsEmpty(i)
    ELSE p >= i.Lo /\ p <= i.Hi

IntervalContains(i, p) == fastContains(i, IF p = -Pi THEN Pi ELSE p)

ContainsInterval(i, oi) ==
    IF IsInverted(i)
    THEN IF IsInverted(oi) THEN oi.Lo >= i.Lo /\ oi.Hi <= i.Hi
         ELSE (oi.Lo >= i.Lo \/ oi.Hi <= i.Hi) /\ ~IsEmpty(i)
    ELSE IF IsInverted(oi) THEN IsFull(i) \/ IsEmpty(oi)
         ELSE oi.Lo >= i.Lo /\ oi.Hi <= i.Hi

Complement(i) == IF i.Lo = i.Hi THEN FullInterval ELSE [Lo |-> i.Hi, Hi |-> i.Lo]

IntervalIntersection(i, oi) ==
    IF IsEmpty(oi) THEN EmptyInterval
    ELSE IF fastContains(i, oi.Lo)
    THEN IF fastContains(i, oi.Hi)
         THEN IF IntervalLength(oi) < IntervalLength(i) THEN oi ELSE i
         ELSE [Lo |-> oi.Lo, Hi |-> i.Hi]
    ELSE IF fastContains(i, oi.Hi) THEN [Lo |-> i.Lo, Hi |-> oi.Hi]
    ELSE IF fastContains(oi, i.Lo) THEN i
    ELSE EmptyInterval

Expanded(i, margin) ==
    IF margin >= 0 /\ IsEmpty(i) THEN i
    ELSE IF margin >= 0 /\ IntervalLength(i) + 2 * margin >= 2 * Pi THEN FullInterval
    ELSE IF margin < 0 /\ IsFull(i) THEN i
    ELSE IF margin < 0 /\ IntervalLength(i) + 2 * margin <= 0 THEN EmptyInterval
    ELSE LET r == IntervalFromEndpoints(Remainder(i.Lo - margin), Remainder(i.Hi + margin))
         IN IF r.Lo <= -Pi THEN [r EXCEPT !.Lo = Pi] ELSE r

\* Points seen from src: the direction dir of p in the frame of src and the
\* distance from src as a chord angle, in units of which RightChordAngle is
\* two (0, 60, 90 and 120 degrees for 0 .. 3).  A point at distance 0 is src.
SimplifierPoints ==
    {[dir |-> d, dist |-> a] : d \in (-SMaxDir)..SMaxDir, a \in 1..3}
        \cup {[dir |-> 0, dist |-> 0]}

\* The radii of the discs: a single point, and 60 degrees.
SimplifierRadii == {0, 1}

RightChordAngle == 2

\* math.Atan2(p.Dot(s.yDir), p.Dot(s.xDir))
getDirection(sp, p) == p.dir

\* math.Asin(math.Sqrt(sin2R / sin2A)) for the radii and the distances of
\* the model: a disc of 60 degrees is seen under a half angle of 60 degrees
\* from 90 degrees away and of 90 degrees from 120 degrees away.
SubtendedHalfAngle(r2, a2) ==
    CASE r2 = 0 -> 0
      [] r2 = 1 /\ a2 = 2 -> 2
      [] r2 = 1 /\ a2 = 3 -> 3

\* getSemiwidth: the rounding error is below the resolution of the angles,
\* except that rounding down turns a half angle of zero negative.
getSemiwidth(sp, p, r, roundDirection) ==
    IF p.dist <= r THEN Pi
    ELSE LET semiwidth == SubtendedHalfAngle(r, p.dist)
         IN IF semiwidth = 0 /\ roundDirection < 0 THEN -1 ELSE semiwidth

\* Init: the window is full again and no range is pending.
PolylineSimplifierInit(sp, src) ==
    [sp EXCEPT !.src = src, !.window = FullInterval, !.rangesToAvoid = <<>>,
               !.lastCall = "Init", !.ret = TRUE]

NewPolylineSimplifier(src) ==
    [PolylineSimplifierInit([src |-> src, window |-> EmptyInterval, rangesToAvoid |-> <<>>,
                             lastCall |-> "none", ret |-> TRUE], src)
        EXCEPT !.lastCall = "NewPolylineSimplifier"]

Extend(sp, dst) ==
    IF dst.dist > RightChordAngle THEN FALSE
    ELSE LET dir == getDirection(sp, dst)
         IN /\ IntervalContains(sp.window, dir)
            /\ \A k \in 1..Len(sp.rangesToAvoid) :
                  ~IntervalContains(sp.rangesToAvoid[k].interval, dir)

avoidRange(window, avoidInterval, discOnLeft) ==
    IF ContainsInterval(window, avoidInterval)
    THEN IF discOnLeft THEN [Lo |-> window.Lo, Hi |-> avoidInterval.Lo]
         ELSE [Lo |-> avoidInterval.Hi, Hi |-> window.Hi]
    ELSE IntervalIntersection(window, Complement(avoidInterval))

\* The loop of TargetDisc over the pending ranges, from range k on.
RECURSIVE AvoidPending(_, _, _)
AvoidPending(window, ranges, k) ==
    IF k > Len(ranges) THEN window
    ELSE AvoidPending(avoidRange(window, ranges[k].interval, ranges[k].onLeft), ranges, k + 1)

TargetDisc(sp, p, r) ==
    LET semiwidth == getSemiwidth(sp, p, r, -1)
        center == getDirection(sp, p)
        target == Expanded(IntervalFromPointPair(center, center), semiwidth)
        window == AvoidPending(IntervalIntersection(sp.window, target), sp.rangesToAvoid, 1)
    IN IF semiwidth >= Pi THEN [sp EXCEPT !.lastCall = "TargetDisc", !.ret = TRUE]
       ELSE IF semiwidth < 0
       THEN [sp EXCEPT !.lastCall = "TargetDisc", !.ret = FALSE, !.window = EmptyInterval]
       ELSE [sp EXCEPT !.lastCall = "TargetDisc", !.ret = ~IsEmpty(window),
                       !.window = window, !.rangesToAvoid = <<>>]

AvoidDisc(sp, p, r, discOnLeft) ==
    LET semiwidth == getSemiwidth(sp, p, r, 1)
        center == getDirection(sp, p)
        dLeft == IF discOnLeft THEN Pi \div 2 ELSE semiwidth
        dRight == IF discOnLeft THEN semiwidth ELSE Pi \div 2
        avoidInterval == IntervalFromEndpoints(Remainder(center - dRight),
                                               Remainder(center + dLeft))
        window == avoidRange(sp.window, avoidInterval, discOnLeft)
    IN IF semiwidth >= Pi
       THEN [sp EXCEPT !.lastCall = "AvoidDisc", !.ret = FALSE, !.window = EmptyInterval]
       ELSE IF IsFull(sp.window)
       THEN [sp EXCEPT !.lastCall = "AvoidDisc", !.ret = TRUE,
                       !.rangesToAvoid = Append(@, [interval |-> avoidInterval,
                                                    onLeft |-> discOnLeft])]
       ELSE [sp EXCEPT !.lastCall = "AvoidDisc", !.ret = ~IsEmpty(window),
                       !.window = window]

SimplifierSources == 0..SMaxSrc

SimplifierUnchanged == UNCHANGED <<builderVars, boolVars, bufVars, nest, auxVars>>

SimplifierInit ==
    /\ \E src \in SimplifierSources : simp' = PolylineSimplifierInit(simp, src)
    /\ SimplifierUnchanged

SimplifierExtend ==
    /\ \E dst \in SimplifierPoints :
          simp' = [simp EXCEPT !.lastCall = "Extend", !.ret = Extend(simp, dst)]
    /\ SimplifierUnchanged

SimplifierTargetDisc ==
    /\ \E p \in SimplifierPoints, r \in SimplifierRadii : simp' = TargetDisc(simp, p, r)
    /\ SimplifierUnchanged

\* While the window is full every AvoidDisc that returns true adds a pending
\* range; the model follows at most SMaxRanges of them.
SimplifierAvoidDisc ==
    /\ \E p \in SimplifierPoints, r \in SimplifierRadii, discOnLeft \in BOOLEAN :
          /\ simp' = AvoidDisc(simp, p, r, discOnLeft)
          /\ Len(simp'.rangesToAvoid) <= SMaxRanges
    /\ SimplifierUnchanged

InitSimplifier ==
    /\ \E src \in SimplifierSources : simp = NewPolylineSimplifier(src)
    /\ nest = [asked |-> FALSE, shape |-> <<>>, relations |-> <<>>]
    /\ NoAux
    /\ InitBuilder({IdentitySnapFunction(0)}, {FALSE}, {PolygonFromLoops(<<>>)})
    /\ NoBool
    /\ NoBuffer

NextSimplifier ==
    SimplifierInit \/ SimplifierExtend \/ SimplifierTargetDisc \/ SimplifierAvoidDisc

SpecSimplifier == InitSimplifier /\ [][NextSimplifier]_vars

\* C18: whenever TargetDisc returns true the window of allowable directions
\* is not empty after the call; so with the window emptied by an earlier
\* call, TargetDisc returns false.
C18_TargetTrueOnlyIfWindow ==
    (simp.lastCall = "TargetDisc" /\ simp.ret) => ~IsEmpty(simp.window)

----------------------------------------------------------------------------
(* Properties of site assignment (SpecSnap) *)

\* No vertex was added since the latest Build returned.
Fresh == builds > 0 /\ Len(vMap) = Len(inputVertices)

Snapped(i) == SnapPoint(opts.SnapFunction, inputVertices[i])

Radius == SnapRadius(opts.SnapFunction)

\* C2: after Build has assigned sites, every input vertex lies within
\* SnapRadius of the site it is mapped to, for every SnapFunction that
\* satisfies its contract.
C2_SnapRadiusGuarantee ==
    Fresh => \A i \in 1..Len(inputVertices) :
                Distance(inputVertices[i], sites[vMap[i]]) <= Radius

\* C3: any two distinct sites are more than SnapRadius apart, hence at least
\* the identity snap function's MinVertexSeparation apart.
C3_SiteSeparation ==
    builds > 0 =>
        \A i, j \in 1..Len(sites) :
            i # j => /\ Distance(sites[i], sites[j]) > Radius
                     /\ Distance(sites[i], sites[j])
                            >= MinVertexSeparation(IdentitySnapFunction(Radius))

C3_Witness ==
    /\ Fresh
    /\ Radius >= 1
    /\ Len(sites) >= 2
    /\ \E i \in 1..Len(inputVertices) : Snapped(i) # sites[vMap[i]]

\* The first input vertex mapped to site k.
Creator(k) ==
    CHOOSE i \in 1..Len(vMap) :
        vMap[i] = k /\ \A j \in 1..(i - 1) : vMap[j] # k

\* Every vertex is mapped to the lowest-index site, among those created by
\* the vertices before it, within SnapRadius of its snapped point, and is a
\* new site exactly when there is none.
GreedyFirstMatch ==
    /\ \A k \in 1..Len(sites) : \E i \in 1..Len(vMap) : vMap[i] = k
    /\ \A k \in 1..Len(sites) :
          /\ sites[k] = Snapped(Creator(k))
          /\ \A k2 \in 1..(k - 1) : Creator(k2) < Creator(k)
    /\ \A i \in 1..Len(vMap) :
          /\ vMap[i] \in 1..Len(sites)
          /\ Creator(vMap[i]) <= i
          /\ Distance(Snapped(i), sites[vMap[i]]) <= Radius
          /\ \A j \in 1..(vMap[i] - 1) : Distance(Snapped(i), sites[j]) > Radius

\* The input is one chain of n edges: each edge starts where the previous
\* one ends.
IsChain(n) ==
    /\ Len(inputEdges) = n
    /\ n >= 1
    /\ \A e \in 1..(n - 1) : inputVertices[2 * e] = inputVertices[2 * e + 1]

\* The chain is nearly closed, measured on the input vertices.
NearClosedVertices(n) ==
    /\ \A a, b \in 1..n :
          a # b => Distance(inputVertices[2 * a - 1], inputVertices[2 * b - 1]) > Radius
    /\ Distance(inputVertices[2 * n], inputVertices[1]) <= Radius

\* The chain is nearly closed, measured on the snapped points.
NearClosedSnapped(n) ==
    /\ \A a, b \in 1..n :
          a # b => Distance(Snapped(2 * a - 1), Snapped(2 * b - 1)) > Radius
    /\ Distance(Snapped(2 * n), Snapped(1)) <= Radius

\* C4 as stated: greedy first-match, and every nearly closed chain of edges
\* is built into exactly one closed loop.
C4_AnyChainOneLoop ==
    (Fresh /\ layers # <<>>) =>
        /\ GreedyFirstMatch
        /\ \A n \in 2..Len(inputEdges) :
              (IsChain(n) /\ NearClosedVertices(n)) => Len(polygon[1]) = 1

\* C4 amended: greedy first-match, and every chain of at least three edges
\* that is nearly closed after SnapPoint is built into exactly one closed
\* loop, whose vertices are the snapped chain vertices in order.
C4_GreedyFirstMatch ==
    (Fresh /\ layers # <<>>) =>
        /\ GreedyFirstMatch
        /\ \A n \in 3..Len(inputEdges) :
              (IsChain(n) /\ NearClosedSnapped(n)) =>
                  polygon[1] = <<[a \in 1..n |-> Snapped(2 * a - 1)]>>

C4_Witness ==
    /\ Fresh
    /\ layers # <<>>
    /\ Radius >= 1
    /\ IsChain(3)
    /\ NearClosedSnapped(3)
    /\ Snapped(6) # Snapped(1)
    /\ Len(polygon[1]) = 1

----------------------------------------------------------------------------
(* Properties of layer dispatch (SpecLayers) *)

\* The layer.Build invocations of the latest Build call.
LatestCalls == SelectSeq(calls, LAMBDA c : c.build = builds)

\* The index of the first registered layer whose Build fails; 0 if none does.
FirstFailing ==
    IF \E k \in 1..Len(layers) : layers[k].kind = "failing"
    THEN CHOOSE k \in 1..Len(layers) :
            /\ layers[k].kind = "failing"
            /\ \A j \in 1..(k - 1) : layers[j].kind # "failing"
    ELSE 0

\* The last layer the latest Build is expected to reach.
LastReached == IF FirstFailing = 0 THEN Len(layers) ELSE FirstFailing

\* C5: Build returns the error of the first failing layer in registration
\* order and invokes no layer after it; the layers that succeeded before it
\* keep what they wrote; without a failing layer Build returns nil.
C5_FirstErrorReturned ==
    builds > 0 =>
        /\ err = (IF FirstFailing = 0 THEN NilError ELSE layers[FirstFailing].error)
        /\ \A i \in 1..Len(LatestCalls) : LatestCalls[i].layer <= LastReached
        /\ \A k \in 1..(LastReached - 1) :
              /\ \E i \in 1..Len(LatestCalls) : LatestCalls[i].layer = k
              /\ \A i \in 1..Len(polygon[layers[k].polygon]) :
                    polygon[layers[k].polygon][i] # LoopFromPoints(OldLoop)

C5_Witness ==
    /\ builds > 0
    /\ Len(layers) = 2
    /\ layers[1].kind = "failing"
    /\ layers[2].kind = "failing"
    /\ layers[1].error # layers[2].error
    /\ err = layers[1].error

\* C6 as stated: a Build that returns an error has modified no output polygon.
C6_NoPolygonModifiedOnError ==
    [][(builds' = builds + 1 /\ err' # NilError) => polygon' = polygon]_vars

\* C6 amended: a Build that returns an error has modified only output
\* polygons of layers that succeeded before the failing layer, and has
\* invoked no layer registered after the failing one.
C6_OnlyEarlierLayersWritten ==
    [][(builds' = builds + 1 /\ err' # NilError) =>
          /\ \A t \in 1..NumPolygons :
                polygon'[t] # polygon[t] =>
                    \E k \in 1..(FirstFailing - 1) : layers[k] = NewPolygonLayer(t)
          /\ \A i \in 1..Len(calls') :
                calls'[i].build = builds' => calls'[i].layer <= FirstFailing]_vars

C6_Witness ==
    /\ builds > 0
    /\ err # NilError
    /\ \E k \in 1..Len(layers) :
          /\ layers[k].kind = "polygon"
          /\ k > FirstFailing
          /\ polygon[layers[k].polygon] = PolygonFromLoops(<<LoopFromPoints(OldLoop)>>)

\* Every invocation of the latest Build got the sites and the edges of that
\* Build, with the invoked layer's own options.
SameGraphForAll ==
    \A i \in 1..Len(LatestCalls) :
        /\ LatestCalls[i].Vertices = sites
        /\ LatestCalls[i].Edges = edges
        /\ LatestCalls[i].Options = GraphOptions(layers[LatestCalls[i].layer])

\* C7 as stated: Build invokes every registered layer exactly once, in
\* registration order, each with the same vertex and edge list.
C7_EveryLayerInvoked ==
    builds > 0 =>
        /\ Len(LatestCalls) = Len(layers)
        /\ \A i \in 1..Len(LatestCalls) : LatestCalls[i].layer = i
        /\ SameGraphForAll

\* C7 amended: Build invokes the registered layers exactly once each, in
\* registration order, up to and including the first layer that returns an
\* error (all of them when none fails), each with the same vertex and edge
\* list.
C7_LayersInvokedInOrder ==
    builds > 0 =>
        /\ Len(LatestCalls) = LastReached
        /\ \A i \in 1..Len(LatestCalls) : LatestCalls[i].layer = i
        /\ SameGraphForAll

C7_Witness ==
    /\ builds > 0
    /\ err = NilError
    /\ Len(layers) = 2
    /\ layers[1] # layers[2]
    /\ Len(LatestCalls) = 2
    /\ Len(edges) >= 2

\* C8: once Build has been called the builder accepts no AddEdge, AddPolygon
\* or StartLayer call and no later Build runs the layers again.
C8_SingleUse ==
    [][builds >= 1 =>
          /\ inputVertices' = inputVertices
          /\ inputEdges' = inputEdges
          /\ layers' = layers
          /\ calls' = calls]_vars

\* The loop is a closed circuit of the latest graph.
IsCircuit(loop) ==
    /\ Len(loop) >= 3
    /\ \A a \in 1..Len(loop) :
          \E i \in 1..Len(edges) :
              /\ sites[edges[i].Src] = loop[a]
              /\ sites[edges[i].Dst] = loop[(a % Len(loop)) + 1]

\* C9: after PolygonLayer.Build the target polygon holds exactly the loops
\* assembled from this graph: none it held before, and zero loops when none
\* was assembled; the call returns nil.
C9_PolygonReplaced ==
    builds > 0 =>
        \A i \in 1..Len(LatestCalls) :
            LET l == layers[LatestCalls[i].layer]
                g == NewBuilderGraph(GraphOptions(l), sites, edges)
            IN l.kind = "polygon" =>
                  /\ polygon[l.polygon] = ExtractLoops(g, 1, {}, <<>>)
                  /\ \A a \in 1..Len(polygon[l.polygon]) :
                        /\ polygon[l.polygon][a] # LoopFromPoints(OldLoop)
                        /\ IsCircuit(polygon[l.polygon][a])
                  /\ (FirstFailing = 0 => err = NilError)

C9_Witness ==
    /\ builds > 0
    /\ \E i \in 1..Len(LatestCalls), t \in 1..NumPolygons :
          /\ layers[LatestCalls[i].layer] = NewPolygonLayer(1)
          /\ Len(polygon[1]) = 1
          /\ polygon[t] = PolygonFromLoops(<<LoopFromPoints(OldLoop)>>)

\* The same, for a graph from which no loop is assembled.
C9_WitnessEmpty ==
    /\ builds > 0
    /\ \E i \in 1..Len(LatestCalls), t \in 1..NumPolygons :
          /\ layers[LatestCalls[i].layer] = NewPolygonLayer(1)
          /\ polygon[1] = <<>>
          /\ polygon[t] = PolygonFromLoops(<<LoopFromPoints(OldLoop)>>)

\* The loop is walked by distinct edges of the latest graph: its vertices
\* are their sources in order, every edge ends where the next one starts and
\* the last one ends where the first one starts.
IsClosedWalk(loop) ==
    \E walk \in [1..Len(loop) -> 1..Len(edges)] :
        /\ \A a, b \in 1..Len(loop) : a # b => walk[a] # walk[b]
        /\ \A a \in 1..Len(loop) :
              /\ sites[edges[walk[a]].Src] = loop[a]
              /\ edges[walk[a]].Dst = edges[walk[(a % Len(loop)) + 1]].Src

\* C20: every loop that PolygonLayer.Build emits has at least 3 vertices and
\* is a closed walk over distinct edges of the graph; so a walk that closes
\* with fewer than 3 vertices or does not return to its start emits no loop.
C20_LoopsAreClosedWalks ==
    builds > 0 =>
        \A i \in 1..Len(LatestCalls) :
            LET l == layers[LatestCalls[i].layer]
            IN l.kind = "polygon" =>
                  \A a \in 1..Len(polygon[l.polygon]) :
                      /\ Len(polygon[l.polygon][a]) >= 3
                      /\ IsClosedWalk(polygon[l.polygon][a])

\* A graph of three edges through three sites that is built into one loop.
C20_Witness ==
    /\ builds > 0
    /\ Len(LatestCalls) = 1
    /\ layers[1].kind = "polygon"
    /\ Len(edges) = 3
    /\ Len(polygon[layers[1].polygon]) = 1
    /\ Len(polygon[layers[1].polygon][1]) = 3

\* A walk of three edges that does not return to its start: no loop.
C20_WitnessDeadEnd ==
    /\ builds > 0
    /\ Len(LatestCalls) = 1
    /\ layers[1].kind = "polygon"
    /\ Len(edges) = 3
    /\ edges[1].Dst = edges[2].Src /\ edges[2].Dst = edges[3].Src
    /\ edges[3].Dst \notin {edges[1].Src, edges[2].Src, edges[3].Src}
    /\ polygon[layers[1].polygon] = <<>>

\* A walk that closes after two vertices: no loop.
C20_WitnessShort ==
    /\ builds > 0
    /\ Len(LatestCalls) = 1
    /\ layers[1].kind = "polygon"
    /\ Len(edges) = 2
    /\ edges[1].Dst = edges[2].Src /\ edges[2].Dst = edges[1].Src
    /\ edges[1].Src # edges[1].Dst
    /\ polygon[layers[1].polygon] = <<>>

\* The number of places at which edge index i is listed by GetOutEdges.
RECURSIVE Occurrences(_, _, _)
Occurrences(g, i, v) ==
    IF v > Len(g.Vertices) THEN 0
    ELSE Cardinality({k \in 1..Len(GetOutEdges(g, v)) : GetOutEdges(g, v)[k] = i})
            + Occurrences(g, i, v + 1)

\* C26: for every vertex v of a constructed BuilderGraph, GetOutEdges(v) is
\* the list of the edge indices whose Src is v in increasing order, every
\* edge index is listed exactly once over all vertices, and GetOutEdges of a
\* vertex id past the last vertex is empty.
C26_OutEdgesBySource ==
    graph.stage \in {"graph", "built"} =>
        /\ \A v \in 1..Len(graph.g.Vertices) :
              GetOutEdges(graph.g, v) = outEdgesOf(graph.g.Edges, v)
        /\ \A i \in 1..Len(graph.g.Edges) : Occurrences(graph.g, i, 1) = 1
        /\ \A v \in (Len(graph.g.Vertices) + 1)..(Len(graph.g.Vertices) + 2) :
              GetOutEdges(graph.g, v) = <<>>

\* A constructed graph in which one vertex has two outgoing edges that are
\* not neighbours in the edge list and another vertex has none.
C26_Witness ==
    /\ graph.stage = "graph"
    /\ \E v, w \in 1..Len(graph.g.Vertices) :
          /\ Len(GetOutEdges(graph.g, v)) = 2
          /\ GetOutEdges(graph.g, v)[2] > GetOutEdges(graph.g, v)[1] + 1
          /\ GetOutEdges(graph.g, w) = <<>>

\* The in-degree and the out-degree of vertex v.
InDegree(g, v) == Cardinality({i \in 1..Len(g.Edges) : g.Edges[i].Dst = v})

OutDegree(g, v) == Cardinality({i \in 1..Len(g.Edges) : g.Edges[i].Src = v})

Balanced(g) == \A v \in 1..Len(g.Vertices) : InDegree(g, v) = OutDegree(g, v)

\* The edges of trace chain head to tail and the last one ends where the
\* first one starts.
ClosedTrace(g, trace) ==
    /\ \A k \in 1..(Len(trace) - 1) : g.Edges[trace[k]].Dst = g.Edges[trace[k + 1]].Src
    /\ g.Edges[trace[Len(trace)]].Dst = g.Edges[trace[1]].Src

\* The number of places at which edge index i occurs in the traces of walks.
TraceCount(walks, i) ==
    Cardinality({<<a, k>> \in (1..Len(walks)) \X (1..Len(graph.g.Edges)) :
                    k <= Len(walks[a].trace) /\ walks[a].trace[k] = i})

\* C21: if every vertex of the graph has equal in-degree and out-degree, no
\* walk of PolygonLayer.Build ends at a dead end: every walk is closed and
\* every graph edge lies on exactly one walk, in whatever order the edges
\* are stored.
C21_BalancedNoDeadEnd ==
    (graph.stage = "built" /\ Balanced(graph.g)) =>
        /\ \A a \in 1..Len(graph.walks) :
              /\ graph.walks[a].validLoop
              /\ ClosedTrace(graph.g, graph.walks[a].trace)
        /\ \A i \in 1..Len(graph.g.Edges) : TraceCount(graph.walks, i) = 1

\* A balanced graph of four edges that is walked in one piece, passing twice
\* through a vertex with two outgoing edges.
C21_Witness ==
    /\ graph.stage = "built"
    /\ Balanced(graph.g)
    /\ \E a \in 1..Len(graph.walks) :
          /\ Len(graph.walks[a].trace) = 4
          /\ graph.g.Edges[graph.walks[a].trace[2]].Src
                = graph.g.Edges[graph.walks[a].trace[4]].Src

\* A balanced graph that is walked in two pieces.
C21_WitnessTwoWalks ==
    /\ graph.stage = "built"
    /\ Balanced(graph.g)
    /\ Len(graph.walks) = 2
    /\ \A a \in 1..2 : Len(graph.walks[a].trace) = 2

\* The loops of the walks that closed with at least 3 vertices, in order.
RECURSIVE LoopsOfWalks(_, _)
LoopsOfWalks(walks, a) ==
    IF a > Len(walks) THEN <<>>
    ELSE IF walks[a].validLoop /\ Len(walks[a].vertices) >= 3
         THEN <<LoopFromPoints(walks[a].vertices)>> \o LoopsOfWalks(walks, a + 1)
         ELSE LoopsOfWalks(walks, a + 1)

\* C22: PolygonLayer.Build returns nil for every graph; a walk that ends at a
\* vertex without an unused outgoing edge leaves no trace in the result, and
\* the polygon holds exactly the loops of the other walks; no other polygon
\* and no builder state changes.
C22_DeadEndSilent ==
    graph.stage = "built" =>
        /\ graph.err = NilError
        /\ polygon[1] = PolygonFromLoops(LoopsOfWalks(graph.walks, 1))
        /\ \A t \in 2..NumPolygons : polygon[t] = PolygonFromLoops(<<LoopFromPoints(OldLoop)>>)
        /\ err = "none"

\* A Build in which one walk closes a triangle and another walk ends at a
\* dead end.
C22_Witness ==
    /\ graph.stage = "built"
    /\ \E a, b \in 1..Len(graph.walks) :
          /\ ~graph.walks[a].validLoop
          /\ graph.walks[b].validLoop /\ Len(graph.walks[b].vertices) = 3
    /\ Len(polygon[1]) = 1

\* A Build whose only walk ends at a dead end: the polygon is emptied.
C22_WitnessOnlyDeadEnd ==
    /\ graph.stage = "built"
    /\ Len(graph.walks) = 1
    /\ ~graph.walks[1].validLoop
    /\ polygon[1] = <<>>

\* All the edges marked by the walks, in the order in which they were marked.
RECURSIVE Marks(_, _)
Marks(walks, a) ==
    IF a > Len(walks) THEN <<>> ELSE walks[a].trace \o Marks(walks, a + 1)

\* C27: PolygonLayer.Build returns on every finite graph (the call on a
\* constructed graph has a result, after as many steps as there are edges);
\* every step of a walk marks an edge that no earlier step of any walk has
\* marked, and on return every graph edge has been marked, so that the walks
\* (and the loops emitted from them) never share an edge.
C27_BuildTerminates ==
    /\ graph.stage = "graph" =>
            /\ PolygonLayerBuild(NewPolygonLayer(1), graph.g, polygon).err = NilError
            /\ Len(Marks(ExtractWalks(graph.g, 1, {}, <<>>), 1)) = Len(graph.g.Edges)
    /\ graph.stage = "built" =>
            LET m == Marks(graph.walks, 1)
            IN /\ \A j, k \in 1..Len(m) : j # k => m[j] # m[k]
               /\ {m[k] : k \in 1..Len(m)} = 1..Len(graph.g.Edges)
               /\ Len(m) = Len(graph.g.Edges)

\* A Build over a graph with a duplicate edge and a cycle: the cycle is
\* emitted and the duplicate is walked on its own.
C27_Witness ==
    /\ graph.stage = "built"
    /\ \E i, j \in 1..Len(graph.g.Edges) :
          /\ i # j
          /\ graph.g.Edges[i].Src = graph.g.Edges[j].Src
          /\ graph.g.Edges[i].Dst = graph.g.Edges[j].Dst
    /\ Len(graph.walks) = 2
    /\ Len(polygon[1]) = 1

\* A Build over a graph with a vertex from which two edges lead to different
\* vertices and back.
C27_WitnessBranch ==
    /\ graph.stage = "built"
    /\ \E i, j \in 1..Len(graph.g.Edges) :
          /\ graph.g.Edges[i].Src = graph.g.Edges[j].Src
          /\ graph.g.Edges[i].Dst # graph.g.Edges[j].Dst
          /\ graph.g.Edges[i].Dst # graph.g.Edges[i].Src
          /\ graph.g.Edges[j].Dst # graph.g.Edges[j].Src
    /\ Len(graph.walks) = 2
    /\ \A a \in 1..2 : graph.walks[a].validLoop

\* The indices of the input edges whose endpoints vm maps to different sites.
NonDegenerate(ie, vm) ==
    SelectSeq([i \in 1..Len(ie) |-> i], LAMBDA i : vm[ie[i].v0] # vm[ie[i].v1])

\* The edges of the graph of layer call c are the non-degenerate input edges.
GraphOfInput(c, ie, vm) ==
    LET nd == NonDegenerate(ie, vm)
    IN /\ \A k \in 1..Len(c.Edges) : c.Edges[k].Src # c.Edges[k].Dst
       /\ Len(c.Edges) = Len(nd)
       /\ \A k \in 1..Len(nd) :
             c.Edges[k] = [Src |-> vm[ie[nd[k]].v0], Dst |-> vm[ie[nd[k]].v1],
                           InputIDs |-> <<nd[k]>>]

C24_NoZeroLengthSegment ==
    variant = "full" =>
        \A k \in 1..Len(inputEdges) :
            ~ApproxEqual(inputVertices[inputEdges[k].v0], inputVertices[inputEdges[k].v1])

\* A Build that skipped a sub-segment ending at a crossing point and a final
\* sub-segment ending at V1, and added an edge all the same.
C24_Witness ==
    /\ variant = "full"
    /\ \E a, b \in 1..Len(flagLog) :
          /\ flagLog[a].kind = "cross" /\ flagLog[a].skipped
          /\ flagLog[b].kind = "final" /\ flagLog[b].skipped
    /\ Len(inputEdges) >= 1

\* The crossing points of one edge are processed in non-decreasing distance
\* from V0, and points at equal distance in the order they were collected in.
XSortedStably ==
    xing.stage = "split" =>
        LET c == CollectIntersections(xing.crossingMap, xing.order, 1)
            x == xing.intersections
        IN /\ \A k \in 1..(Len(x) - 1) : XChordAngle(XV0, x[k]) <= XChordAngle(XV0, x[k + 1])
           /\ \A d \in 1..XMaxDist :
                 SelectSeq(x, LAMBDA q : q.t = d) = SelectSeq(c, LAMBDA q : q.t = d)

\* C25: the crossing points of one edge are processed in non-decreasing
\* distance from V0 with ties in a fixed order, so that the sub-segments and
\* their parity values are determined by the crossings of the edge alone:
\* whatever order the crossing map is iterated in, they are the same.
C25_SameCrossingsSameSegments ==
    xing.stage = "split" =>
        \A order \in IterationOrders(Len(xing.crossingMap)) :
            SplitEdge(xing.crossingMap, order).segments = xing.segments

\* What BooleanOperation.Build with operation type t does on the two shapes
\* of the latest Build, from the same builder options, layer and polygons.
BuildAs(t) ==
    BooleanOperationBuild([op EXCEPT !.OpType = t], RegionInput(shapeA, shapeB),
                          RegionInput(shapeB, shapeA),
                          [k \in 1..NumPolygons |-> PolygonFromLoops(<<LoopFromPoints(OldLoop)>>)])

\* C29: for every pair of regions, SymmetricDifference adds the same edges in
\* the same order to the builder as Union does and leaves the same polygons.
C29_SymmetricDifferenceIsUnion ==
    (variant = "full" /\ op.OpType \in {BooleanOperationOpTypeUnion,
                                         BooleanOperationOpTypeSymmetricDifference}) =>
        \E r \in {BuildAs(BooleanOperationOpTypeUnion
                           + BooleanOperationOpTypeSymmetricDifference - op.OpType)} :
            /\ inputVertices = r.builder.inputVertices
            /\ inputEdges = r.builder.inputEdges
            /\ polygon = r.result.polygon
            /\ opErr = r.result.err

\* A SymmetricDifference of two shapes whose boundaries cross, in which a
\* part of the second shape inside the first is left out and a loop is built.
C29_Witness ==
    /\ variant = "full"
    /\ op.OpType = BooleanOperationOpTypeSymmetricDifference
    /\ \E a \in 1..Len(flagLog) : flagLog[a].kind = "cross"
    /\ \E a \in 1..Len(emitLog) :
          emitLog[a].processingB /\ emitLog[a].inside /\ ~emitLog[a].emit
    /\ Len(polygon[1]) >= 1

\* Between queries the result state of the base query is empty.
ResultStateEmpty == cpq.base.resultVector = <<>> /\ cpq.base.resultHeap = <<>>

\* C28: the result of every query depends on the index, the target and the
\* options of that call only: it is what the same call returns on a query
\* object that has just been constructed, whatever calls went before.
C28_QueriesIndependent ==
    cpq.calls > 0 =>
        cpq.results = QueryCall(cpq.lastCall, NewClosestPointQueryBase, cpq.index,
                                cpq.opts, cpq.target, cpq.limit).results

\* C30: however the GetCell calls of several goroutines interleave, a cell
\* is stored in the cache at most once, every call for the same index returns
\* the same pointer, which is the cached one, and no goroutine reads the
\* cache map without holding the mutex or writes it without holding the
\* write lock.
C30_DecodedOnce ==
    \A i \in DOMAIN esi.cells :
        /\ esi.stores[i] <= 1
        /\ Cardinality(esi.returned[i]) <= 1
        /\ \A c \in esi.returned[i] : c = esi.cells[i] /\ c # 0
        /\ ~esi.unlocked
        /\ ~(esi.writer # 0 /\ esi.readers # {})

\* Two goroutines asked for the same cell, both missed it at the first
\* lookup, and both have returned the one cell that was stored.
C30_Witness ==
    /\ esi.g # <<>>
    /\ \E i \in DOMAIN esi.cells :
          /\ \A k \in {1, 2} :
                esi.g[k].pc = "done" /\ esi.g[k].i = i /\ esi.g[k].missed
          /\ esi.g[1].ret = esi.g[2].ret
          /\ esi.g[1].ret # 0
          /\ esi.stores[i] = 1

====
